---- MODULE Spec2Model ----
\* A model of the per-folder block-operations engine of KBFS
\* (libkbfs/folder_block_ops.go): the dirty-file registry, the write and
\* truncate paths, the three-phase file sync and the directory-entry cache
\* with its undo closures.
\*
\* Block pointers are naturals (0 is the zero pointer); a block reference is
\* identified with its pointer.  A path is a sequence of [ptr, name] nodes.
EXTENDS Integers, Sequences, FiniteSets, TLC

VARIABLES
    dirtyBcache,        \* DirtyBlockCache: ptr -> block
    bcache,             \* clean BlockCache backed by the block server: ptr -> block
    dirtyFiles,         \* fbo.dirtyFiles: tail ptr -> dirtyFile
    unrefCache,         \* fbo.unrefCache: ref -> syncInfo
    deferred,           \* fbo.deferred: ref -> deferredState
    doDeferWrite,       \* fbo.doDeferWrite
    dirtyDirs,          \* fbo.dirtyDirs: dir ptr -> unrefs
    dirtyRootDirEntry,  \* fbo.dirtyRootDirEntry (a sequence of length 0 or 1)
    nodeCache,          \* NodeCache: node -> [ptr, parent, name, unlinked, de]
    errListener,        \* buffer of the error channel of the call in flight
    shouldForceSync,    \* what DirtyBlockCache.ShouldForceSync answers
    forceSyncChan,      \* fbo.forceSyncChan: "room", "full" or "signalled"
    nextPtr,            \* next unused block id
    clock,              \* the wall clock read by nowUnixNano
    sync,               \* the sync in flight: metadata, fileSyncState, phase
    pc,                 \* position of the client inside Write/Truncate
    undo,               \* the undo closure handed back by the last dir mutation
    client,             \* the locals of the Write or Truncate call in flight
    sizeSum,            \* the GetCleanEncodedBlocksSizeSum call in flight
    search,             \* the SearchForNodes call in flight
    fetch,              \* the getBlockHelperLocked call in flight
    lbc,                \* the localBcache of the caller of the sync
    cleanup,            \* the last cleanUpUnusedBlocks call and its deletions
    hist                \* history of the run, read only by the properties

vars == <<dirtyBcache, bcache, dirtyFiles, unrefCache, deferred, doDeferWrite,
          dirtyDirs, dirtyRootDirEntry, nodeCache, errListener, shouldForceSync,
          forceSyncChan, nextPtr, clock, sync, pc, undo, client, sizeSum,
          search, fetch, lbc, cleanup, hist>>

\* ---------------------------------------------------------------- bounds
MaxWrites == 3      \* Write and Truncate calls that reach the locked phase
MaxSyncs == 2       \* StartSync calls
MaxDirOps == 2      \* directory-cache mutations

\* Inputs of Write and Truncate.
Offsets == {0, 1}
Lengths == {0, 1}
Sizes == {0, 2}

\* ------------------------------------------------------ program constants
truncateExtendCutoffPoint == 131072

\* --------------------------------------------------------------- helpers
Range(s) == {s[i] : i \in DOMAIN s}

Put(c, p, b) == [q \in (DOMAIN c) \cup {p} |-> IF q = p THEN b ELSE c[q]]

Delete(c, p) == [q \in (DOMAIN c) \ {p} |-> c[q]]

DeleteAll(c, ps) == [q \in (DOMAIN c) \ ps |-> c[q]]

RECURSIVE Without(_, _)
Without(s, ps) ==
    IF s = <<>> THEN <<>>
    ELSE IF Head(s) \in ps THEN Without(Tail(s), ps)
    ELSE <<Head(s)>> \o Without(Tail(s), ps)

Max(a, b) == IF a > b THEN a ELSE b

Min(a, b) == IF a < b THEN a ELSE b

RECURSIVE SumLens(_, _)
SumLens(lens, n) == IF n = 0 THEN 0 ELSE lens[n] + SumLens(lens, n - 1)

\* ----------------------------------------------------------------- paths
tailPointer(p) == IF Len(p) = 0 THEN 0 ELSE p[Len(p)].ptr

tailName(p) == p[Len(p)].name

parentPath(p) == SubSeq(p, 1, Len(p) - 1)

isValid(p) == Len(p) > 0 /\ \A i \in DOMAIN p : p[i].ptr # 0

hasValidParent(p) == Len(p) >= 2 /\ isValid(parentPath(p))

ChildPath(p, name, ptr) == Append(p, [ptr |-> ptr, name |-> name])

\* ---------------------------------------------------------------- blocks
FileBlock(ind, contents, iptrs) ==
    [kind |-> "file", ind |-> ind, contents |-> contents, iptrs |-> iptrs]

DirBlock(children) == [kind |-> "dir", children |-> children]

MakeDirEntry(ptr, type, size, encSize, mtime, ctime) ==
    [ptr |-> ptr, type |-> type, size |-> size, encSize |-> encSize,
     mtime |-> mtime, ctime |-> ctime]

EmptyDirEntry == MakeDirEntry(0, "File", 0, 0, 0, 0)

IsInitialized(de) == de.ptr # 0

\* ------------------------------------------------- the engine as a record
\* Operations are functions from engine records to engine records, so that
\* one handler can call another (a replayed write inside FinishSyncLocked).
Fbo == [dirtyBcache |-> dirtyBcache, bcache |-> bcache,
        dirtyFiles |-> dirtyFiles, unrefCache |-> unrefCache,
        deferred |-> deferred, doDeferWrite |-> doDeferWrite,
        dirtyDirs |-> dirtyDirs, dirtyRootDirEntry |-> dirtyRootDirEntry,
        nodeCache |-> nodeCache, errListener |-> errListener,
        shouldForceSync |-> shouldForceSync, forceSyncChan |-> forceSyncChan,
        nextPtr |-> nextPtr, clock |-> clock, sync |-> sync]

Install(s) ==
    /\ dirtyBcache' = s.dirtyBcache
    /\ bcache' = s.bcache
    /\ dirtyFiles' = s.dirtyFiles
    /\ unrefCache' = s.unrefCache
    /\ deferred' = s.deferred
    /\ doDeferWrite' = s.doDeferWrite
    /\ dirtyDirs' = s.dirtyDirs
    /\ dirtyRootDirEntry' = s.dirtyRootDirEntry
    /\ nodeCache' = s.nodeCache
    /\ errListener' = s.errListener
    /\ shouldForceSync' = s.shouldForceSync
    /\ forceSyncChan' = s.forceSyncChan
    /\ nextPtr' = s.nextPtr
    /\ clock' = s.clock
    /\ sync' = s.sync

\* ------------------------------------------------------------ dirtyFile
\* The state a dirtyFile keeps for one block: sync is "dirty" or "syncing",
\* copy is "copied" or "needsCopy", orphaned marks a block replaced by a
\* readied one during the sync in flight.
EmptyMap == [q \in {} |-> 0]

\* errListeners names the registered error channels that a call still
\* reads: "held" is the channel of the call in flight.  A channel whose
\* call has returned has room for the one error it can be sent and is
\* never read, so it is left out.
newDirtyFile ==
    [fileBlockStates |-> EmptyMap, errListeners |-> {}, notYetSyncingBytes |-> 0]

addErrListener(df, listener) == [df EXCEPT !.errListeners = @ \cup {listener}]

updateNotYetSyncingBytes(df, newBytes) ==
    [df EXCEPT !.notYetSyncingBytes = @ + newBytes]

blockNeedsCopy(df, ptr) ==
    /\ ptr \in DOMAIN df.fileBlockStates
    /\ df.fileBlockStates[ptr].copy = "needsCopy"

isBlockSyncing(df, ptr) ==
    /\ ptr \in DOMAIN df.fileBlockStates
    /\ df.fileBlockStates[ptr].sync = "syncing"

isBlockOrphaned(df, ptr) ==
    /\ ptr \in DOMAIN df.fileBlockStates
    /\ df.fileBlockStates[ptr].orphaned

\* setBlockDirty: the block needs caching when it is new to the file or
\* still has to be copied; it stays part of the sync it is in.
setBlockDirtyNeedsCaching(df, ptr) ==
    ptr \notin DOMAIN df.fileBlockStates \/ blockNeedsCopy(df, ptr)

setBlockDirty(df, ptr) ==
    [df EXCEPT !.fileBlockStates =
        IF ptr \in DOMAIN @
        THEN [@ EXCEPT ![ptr].copy = "copied"]
        ELSE Put(@, ptr, [sync |-> "dirty", copy |-> "copied",
                          orphaned |-> FALSE])]

setBlockSyncing(df, ptr) ==
    [df EXCEPT !.fileBlockStates =
        Put(@, ptr, [sync |-> "syncing", copy |-> "needsCopy",
                     orphaned |-> isBlockOrphaned(df, ptr)])]

setBlockOrphaned(df, ptr, orphaned) ==
    [df EXCEPT !.fileBlockStates =
        IF ptr \in DOMAIN @
        THEN [@ EXCEPT ![ptr].orphaned = orphaned]
        ELSE Put(@, ptr, [sync |-> "dirty", copy |-> "copied",
                          orphaned |-> orphaned])]

resetSyncingBlocksToDirty(df) ==
    [df EXCEPT !.fileBlockStates =
        [p \in DOMAIN @ |-> [@[p] EXCEPT !.sync = "dirty", !.copy = "copied"]]]

RECURSIVE setAllOrphanedSyncing(_, _)
setAllOrphanedSyncing(df, olds) ==
    IF olds = <<>> THEN df
    ELSE setAllOrphanedSyncing(
            setBlockSyncing(setBlockOrphaned(df, Head(olds), TRUE), Head(olds)),
            Tail(olds))

\* --------------------------------------------------------------- syncOp
\* A sub-operation is a write range or a truncate; id is the sequence number
\* of the Write/Truncate call that recorded it (0 for a collapsed range).
newSyncOp == [writes |-> <<>>, refs |-> <<>>, unrefs |-> <<>>, updates |-> <<>>]

resetUpdateState(op) == [op EXCEPT !.updates = <<>>]

WriteRange(off, len, id) ==
    [kind |-> "write", off |-> off, len |-> len, id |-> id]

TruncateOp(size, id) == [kind |-> "truncate", off |-> size, len |-> 0, id |-> id]

addWrite(op, off, len, id) ==
    [op EXCEPT !.writes = Append(@, WriteRange(off, len, id))]

addTruncate(op, size, id) ==
    [op EXCEPT !.writes = Append(@, TruncateOp(size, id))]

\* The bytes a list of sub-operations leaves dirty, and its last truncation
\* point (-1 when there is none).
RECURSIVE DirtyBytes(_)
DirtyBytes(ws) ==
    IF ws = <<>> THEN {}
    ELSE LET w == ws[Len(ws)]
             before == DirtyBytes(SubSeq(ws, 1, Len(ws) - 1))
         IN IF w.kind = "write"
            THEN before \cup {b \in 0..(w.off + w.len - 1) : b >= w.off}
            ELSE {b \in before : b < w.off}

RECURSIVE LastTruncate(_)
LastTruncate(ws) ==
    IF ws = <<>> THEN -1
    ELSE IF ws[Len(ws)].kind = "truncate" THEN ws[Len(ws)].off
    ELSE LastTruncate(SubSeq(ws, 1, Len(ws) - 1))

RECURSIVE RunsOf(_, _)
RunsOf(bytes, from) ==
    IF \A b \in bytes : b < from THEN <<>>
    ELSE LET lo == CHOOSE b \in bytes : b >= from /\ \A c \in bytes : c >= from => b <= c
             hi == CHOOSE b \in bytes :
                     /\ b >= lo
                     /\ \A c \in lo..b : c \in bytes
                     /\ (b + 1) \notin bytes
         IN <<WriteRange(lo, hi - lo + 1, 0)>> \o RunsOf(bytes, hi + 1)

\* collapseWriteRange(nil): the minimal equivalent list, the dirty runs in
\* offset order followed by the surviving truncate.
collapseWriteRange(op) ==
    LET t == LastTruncate(op.writes)
    IN RunsOf(DirtyBytes(op.writes), 0)
         \o (IF t >= 0 THEN <<TruncateOp(t, 0)>> ELSE <<>>)

\* ------------------------------------------------------------- syncInfo
NilBps == [isNil |-> TRUE, blockStates |-> <<>>]

newBlockPutState == [isNil |-> FALSE, blockStates |-> <<>>]

newSyncInfo(de) ==
    [oldInfo |-> [ptr |-> de.ptr, encSize |-> de.encSize], op |-> newSyncOp,
     unrefs |-> <<>>, bps |-> NilBps, toCleanIfUnused |-> <<>>]

removeReplacedBlock(si, ptr) ==
    IF ptr \in Range(si.op.refs)
    THEN [si EXCEPT !.op.refs = Without(@, {ptr}),
                    !.unrefs = Without(@, {ptr})]
    ELSE si

RECURSIVE removeReplacedBlocks(_, _)
removeReplacedBlocks(si, olds) ==
    IF olds = <<>> THEN si
    ELSE removeReplacedBlocks(removeReplacedBlock(si, Head(olds)), Tail(olds))

\* ------------------------------------------------------------ node cache
\* PathFromNode: the path of a linked node is read off its ancestors; an
\* unlinked node keeps the path it had when it was unlinked.
RECURSIVE PathFromNode(_, _)
PathFromNode(nc, n) ==
    IF n \notin DOMAIN nc THEN <<>>
    ELSE IF nc[n].unlinked THEN nc[n].cachedPath
    ELSE IF nc[n].parent = "" THEN <<[ptr |-> nc[n].ptr, name |-> nc[n].name]>>
    ELSE Append(PathFromNode(nc, nc[n].parent),
                [ptr |-> nc[n].ptr, name |-> nc[n].name])

MakeNode(ptr, parent, name) ==
    [ptr |-> ptr, parent |-> parent, name |-> name, unlinked |-> FALSE,
     cachedPath |-> <<>>, de |-> EmptyDirEntry]

\* nodeCache.Get(ref): the node cached for a reference, "" when there is none.
NodeOfRef(nc, ref) ==
    IF ref # 0 /\ \E n \in DOMAIN nc : nc[n].ptr = ref
    THEN CHOOSE n \in DOMAIN nc : nc[n].ptr = ref
    ELSE ""

\* ------------------------------------------------------------ fetch path
IsDirtyBlock(s, ptr) == ptr \in DOMAIN s.dirtyBcache

\* getBlockHelperLocked: the dirty cache is consulted before the clean one.
getBlock(s, ptr) ==
    IF IsDirtyBlock(s, ptr) THEN s.dirtyBcache[ptr] ELSE s.bcache[ptr]

getFileBlockCopiesCleanOnly(s, ptr, file, rtype) ==
    rtype = "blockWrite" /\ ~IsDirtyBlock(s, ptr)

\* getFileBlockLocked: does the fetch hand back a deep copy?
getFileBlockCopies(s, ptr, file, rtype) ==
    /\ rtype = "blockWrite"
    /\ \/ ~IsDirtyBlock(s, ptr)
       \/ /\ tailPointer(file) \in DOMAIN s.dirtyFiles
          /\ blockNeedsCopy(s.dirtyFiles[tailPointer(file)], ptr)

\* getDirLocked: does the fetch hand back a deep copy?
getDirCopies(s, ptr, rtype) == rtype = "blockWrite" /\ ~IsDirtyBlock(s, ptr)

\* DirtyBlockCache.Put.  The top block a sync handed to its caller is an
\* object of its own: putting another object under its pointer ends the
\* sharing, changing the cached object itself changes the caller's block.
PutDirty(s, ptr, block, sameObject) ==
    [s EXCEPT !.dirtyBcache = Put(@, ptr, block),
              !.sync = IF @.fblockCached /\ ptr = tailPointer(@.file)
                       THEN IF sameObject THEN [@ EXCEPT !.fblock = block]
                            ELSE [@ EXCEPT !.fblockCached = FALSE]
                       ELSE @]

\* DirtyBlockCache.Delete.
DeleteDirty(s, ptr) ==
    [s EXCEPT !.dirtyBcache = Delete(@, ptr),
              !.sync = IF @.fblockCached /\ ptr = tailPointer(@.file)
                       THEN [@ EXCEPT !.fblockCached = FALSE]
                       ELSE @]

RECURSIVE DeleteDirtyAll(_, _)
DeleteDirtyAll(s, ptrs) ==
    IF ptrs = <<>> THEN s
    ELSE DeleteDirtyAll(DeleteDirty(s, Head(ptrs)), Tail(ptrs))

\* -------------------------------------------------------------- dirData
dirLookupFound(s, dir, name) ==
    name \in DOMAIN getBlock(s, tailPointer(dir)).children

dirLookup(s, dir, name) == getBlock(s, tailPointer(dir)).children[name]

\* updateEntry, addEntry, removeEntry fetch the block for writing, change
\* it and put it into the dirty block cache.
dirSetEntry(s, dir, name, de) ==
    LET ptr == tailPointer(dir)
        blk == getBlock(s, ptr)
    IN PutDirty(s, ptr, [blk EXCEPT !.children = Put(@, name, de)],
                ~getDirCopies(s, ptr, "blockWrite"))

dirRemoveEntry(s, dir, name) ==
    LET ptr == tailPointer(dir)
        blk == getBlock(s, ptr)
    IN PutDirty(s, ptr, [blk EXCEPT !.children = Delete(@, name)],
                ~getDirCopies(s, ptr, "blockWrite"))

\* A returned undo: nil, or a closure running steps under the block lock.
NoUndo == [state |-> "none", steps |-> <<>>]

NilUndo == [state |-> "nil", steps |-> <<>>]

wrapWithBlockLock(steps) == [state |-> "fn", steps |-> steps]

\* ------------------------------------------------- dirty directories
\* makeDirDirtyLocked; the closure it returns is kept as the record of the
\* values the closure captured.
makeDirDirtyLocked(s, ptr, unrefs) ==
    [s EXCEPT !.dirtyDirs =
        Put(@, ptr, (IF ptr \in DOMAIN @ THEN @[ptr] ELSE <<>>) \o unrefs)]

\* A closure of makeDirDirtyLocked that takes the directory for dirty
\* before the call.
makeDirDirtyUndoAsDirty(s, ptr, unrefs) ==
    [ptr |-> ptr, wasDirty |-> TRUE,
     oldUnrefs |-> IF ptr \in DOMAIN s.dirtyDirs THEN s.dirtyDirs[ptr] ELSE <<>>,
     unrefs |-> unrefs]

makeDirDirtyUndo(s, ptr, unrefs) ==
    [ptr |-> ptr, wasDirty |-> ptr \in DOMAIN s.dirtyDirs,
     oldUnrefs |-> IF ptr \in DOMAIN s.dirtyDirs THEN s.dirtyDirs[ptr] ELSE <<>>,
     unrefs |-> unrefs]

runMakeDirDirtyUndo(s, u) ==
    LET s1 == IF u.wasDirty
              THEN [s EXCEPT !.dirtyDirs = Put(@, u.ptr, u.oldUnrefs)]
              ELSE [DeleteDirty(s, u.ptr) EXCEPT !.dirtyDirs = Delete(@, u.ptr)]
    IN DeleteDirtyAll(s1, u.unrefs)

\* ----------------------------------------------------- directory entries
GetRootDirEntry(s) == MakeDirEntry(s.nodeCache["root"].ptr, "Dir", 0, 1, 0, 0)

\* getEntryLocked; found is false for the NoSuchName error.
getEntryLocked(s, file, includeDeleted) ==
    IF ~hasValidParent(file)
    THEN [found |-> TRUE,
          de |-> IF s.dirtyRootDirEntry # <<>> THEN s.dirtyRootDirEntry[1]
                 ELSE GetRootDirEntry(s)]
    ELSE LET pp == parentPath(file)
             ok == dirLookupFound(s, pp, tailName(file))
             de == IF ok THEN dirLookup(s, pp, tailName(file)) ELSE EmptyDirEntry
             n == NodeOfRef(s.nodeCache, tailPointer(file))
         IN IF includeDeleted /\ (~ok \/ de.ptr # tailPointer(file))
            THEN IF n # "" /\ s.nodeCache[n].unlinked
                 THEN [found |-> TRUE, de |-> s.nodeCache[n].de]
                 ELSE [found |-> FALSE, de |-> EmptyDirEntry]
            ELSE [found |-> ok, de |-> de]

\* updateEntryLocked.
updateEntryLocked(s, file, de, includeDeleted) ==
    LET pp == parentPath(file)
        n == NodeOfRef(s.nodeCache, tailPointer(file))
    IN IF dirLookupFound(s, pp, tailName(file))
       THEN makeDirDirtyLocked(dirSetEntry(s, pp, tailName(file), de),
                               tailPointer(pp), <<>>)
       ELSE IF includeDeleted /\ n # "" /\ s.nodeCache[n].unlinked
       THEN [s EXCEPT !.nodeCache[n].de = de]
       ELSE s

\* ------------------------------------------------- dirty files, sync infos
getOrCreateDirtyFileLocked(s, file) ==
    IF tailPointer(file) \in DOMAIN s.dirtyFiles THEN s
    ELSE [s EXCEPT !.dirtyFiles = Put(@, tailPointer(file), newDirtyFile)]

cacheBlockIfNotYetDirtyLocked(s, ptr, file, block, sameObject) ==
    LET s1 == getOrCreateDirtyFileLocked(s, file)
        tail == tailPointer(file)
        df == s1.dirtyFiles[tail]
        s2 == IF setBlockDirtyNeedsCaching(df, ptr)
              THEN PutDirty(s1, ptr, block, sameObject)
              ELSE s1
    IN [s2 EXCEPT !.dirtyFiles[tail] = setBlockDirty(df, ptr),
                  !.doDeferWrite = @ \/ isBlockSyncing(df, ptr)]

getOrCreateSyncInfoLocked(s, de) ==
    IF de.ptr \in DOMAIN s.unrefCache THEN s
    ELSE [s EXCEPT !.unrefCache = Put(@, de.ptr, newSyncInfo(de))]

\* ------------------------------------------------------- error listeners
\* The errors a sync can end with, and nil.
NoContextErrors == {}

ContextErrors == {"canceled", "deadlineExceeded"}

isRecoverableBlockError(err) == err = "recoverable"

\* registerErr of maybeWaitOnDeferredWrites: a fresh channel of capacity
\* one is registered with the dirtyFile of the file.
registerErr(s, file) ==
    [getOrCreateDirtyFileLocked(s, file)
       EXCEPT !.dirtyFiles[tailPointer(file)] = addErrListener(@, "held"),
              !.errListener = <<>>]

\* The call in flight returns: no one reads its channel any more.
abandonListener(s) ==
    [s EXCEPT !.errListener = <<>>,
              !.dirtyFiles =
                 [p \in DOMAIN @ |->
                    [@[p] EXCEPT !.errListeners = @ \ {"held"}]]]

\* dirtyFile.notifyErrListeners: every registered channel is sent the error
\* and the registrations are dropped.
notifyErrListeners(s, ptr, err) ==
    [s EXCEPT !.dirtyFiles[ptr].errListeners = {},
              !.errListener =
                 IF "held" \in s.dirtyFiles[ptr].errListeners
                 THEN Append(@, err) ELSE @]

\* A notification that does not spare the recoverable errors.
notifyEveryErr(s, ptr, err) ==
    IF ptr \in DOMAIN s.dirtyFiles THEN notifyErrListeners(s, ptr, err) ELSE s

notifyErrListenersLocked(s, ptr, err) ==
    IF isRecoverableBlockError(err) THEN s
    ELSE IF ptr \in DOMAIN s.dirtyFiles THEN notifyErrListeners(s, ptr, err)
    ELSE s

\* -------------------------------------------------------------- fileData
\* An indirect pointer carries the offset of its leaf: [ptr, encSize, off].
Splice(contents, off, data) ==
    LET lc == Len(contents)
        ld == Len(data)
        before == IF off <= lc THEN SubSeq(contents, 1, off)
                  ELSE contents \o [j \in 1..(off - lc) |-> 0]
        after == IF off + ld < lc THEN SubSeq(contents, off + ld + 1, lc)
                 ELSE <<>>
    IN before \o data \o after

RECURSIVE LeafContents(_, _, _)
LeafContents(s, iptrs, i) ==
    IF i > Len(iptrs) THEN <<>>
    ELSE getBlock(s, iptrs[i].ptr).contents \o LeafContents(s, iptrs, i + 1)

\* The bytes of the file as a reader sees them (fetches of kind blockRead).
FileContents(s, file) ==
    LET top == getBlock(s, tailPointer(file))
    IN IF top.ind THEN LeafContents(s, top.iptrs, 1) ELSE top.contents

\* fd.read: the bytes copied into a buffer of n bytes at offset off.
fdRead(s, file, off, n) ==
    LET all == FileContents(s, file)
    IN IF off >= Len(all) THEN <<>>
       ELSE SubSeq(all, off + 1, Min(off + n, Len(all)))

\* A block changed by the file data: the cached object is changed in place
\* when the fetch did not copy it, and the cacher is called for it.
writeBlock(s, ptr, file, block, sameObject) ==
    cacheBlockIfNotYetDirtyLocked(
        IF sameObject THEN PutDirty(s, ptr, block, TRUE) ELSE s,
        ptr, file, block, sameObject)

\* The bytes a change of a block newly dirties: its new length, less its
\* old length when it was dirty already.
newlyDirtied(s, ptr, oldLen, newLen) ==
    newLen - (IF IsDirtyBlock(s, ptr) THEN oldLen ELSE 0)

RECURSIVE fdWriteLeaves(_, _, _, _, _)
fdWriteLeaves(r, file, data, off, i) ==
    IF i > Len(r.top.iptrs) THEN r
    ELSE LET ip == r.top.iptrs[i]
             blk == getBlock(r.s, ip.ptr)
             n == Len(blk.contents)
             hit(g) == g >= off /\ g < off + Len(data)
             touched == \E g \in ip.off..(ip.off + n - 1) : hit(g)
             newBlk == [blk EXCEPT !.contents =
                         [k \in 1..n |-> IF hit(ip.off + k - 1)
                                         THEN data[ip.off + k - off]
                                         ELSE blk.contents[k]]]
             same == ~getFileBlockCopies(r.s, ip.ptr, file, "blockWrite")
         IN fdWriteLeaves(
              IF touched
              THEN [s |-> writeBlock(r.s, ip.ptr, file, newBlk, same),
                    top |-> [r.top EXCEPT !.iptrs[i].encSize = 0],
                    dirtyPtrs |-> Append(r.dirtyPtrs, ip.ptr),
                    unrefs |-> IF ip.encSize > 0 THEN Append(r.unrefs, ip.ptr)
                               ELSE r.unrefs,
                    bytes |-> r.bytes + newlyDirtied(r.s, ip.ptr, n, n)]
              ELSE r,
              file, data, off, i + 1)

\* fd.write.  A write of no bytes changes no leaf; the top block of an
\* indirect file is dirtied by every write.
fdWrite(s, file, data, off, top, topSame, de) ==
    LET tail == tailPointer(file)
        newDe == IF Len(data) = 0 THEN de
                 ELSE [de EXCEPT !.size = Max(@, off + Len(data))]
    IN IF top.ind
       THEN LET r == fdWriteLeaves([s |-> s, top |-> top, dirtyPtrs |-> <<>>,
                                    unrefs |-> <<>>, bytes |-> 0],
                                   file, data, off, 1)
            IN [s |-> writeBlock(r.s, tail, file, r.top, topSame),
                newDe |-> newDe, dirtyPtrs |-> Append(r.dirtyPtrs, tail),
                unrefs |-> r.unrefs, bytes |-> r.bytes]
       ELSE IF Len(data) = 0
       THEN [s |-> s, newDe |-> newDe, dirtyPtrs |-> <<>>, unrefs |-> <<>>,
             bytes |-> 0]
       ELSE [s |-> writeBlock(s, tail, file,
                      [top EXCEPT !.contents = Splice(@, off, data)], topSame),
             newDe |-> newDe, dirtyPtrs |-> <<tail>>, unrefs |-> <<>>,
             bytes |-> newlyDirtied(s, tail, Len(top.contents),
                                    Len(Splice(top.contents, off, data)))]

\* fd.truncateShrink of a direct file.
fdTruncateShrink(s, file, size, top, topSame, de) ==
    [s |-> writeBlock(s, tailPointer(file), file,
                [top EXCEPT !.contents = SubSeq(@, 1, size)], topSame),
     newDe |-> [de EXCEPT !.size = size],
     dirtyPtrs |-> <<tailPointer(file)>>, unrefs |-> <<>>,
     bytes |-> newlyDirtied(s, tailPointer(file), Len(top.contents), size)]

\* fd.truncateExtend: the hole is kept in the size of the entry.
fdTruncateExtend(s, file, size, top, topSame, de) ==
    [s |-> writeBlock(s, tailPointer(file), file, top, topSame),
     newDe |-> [de EXCEPT !.size = size],
     dirtyPtrs |-> <<tailPointer(file)>>]

\* ------------------------------------------------------- the write path
\* The poll of ShouldForceSync and the send on forceSyncChan that does not
\* block: the signal is taken when the sync driver has room for it.
maybeForceSync(s) ==
    IF s.shouldForceSync /\ s.forceSyncChan = "room"
    THEN [s EXCEPT !.forceSyncChan = "signalled"]
    ELSE s

\* Appending the sub-operation of a call to the op of its sync info.
recordWrite(si, off, len, id) == [si EXCEPT !.op = addWrite(@, off, len, id)]

\* A truncate recorded in front of the earlier sub-operations.
recordTruncateFirst(si, size, id) ==
    [si EXCEPT !.op.writes = <<TruncateOp(size, id)>> \o @]

recordTruncate(si, size, id) == [si EXCEPT !.op = addTruncate(@, size, id)]

\* The end of writeDataLocked, truncateExtendLocked and truncateLocked: w
\* is what the file data returned, s its state with the unrefs and the sync
\* info brought up to date.  The entry gets the time of the call.
stampEntry(s, file, w) ==
    updateEntryLocked([s EXCEPT !.clock = @ + 1], file,
                      [w.newDe EXCEPT !.mtime = s.clock + 1, !.ctime = s.clock + 1],
                      TRUE)

writeDataLocked(s, file, data, off, id) ==
    LET tail == tailPointer(file)
        top == getBlock(s, tail)
        topSame == ~getFileBlockCopies(s, tail, file, "blockWrite")
        Written(w, de) ==
            [s |-> maybeForceSync(
                      [stampEntry([w.s EXCEPT !.unrefCache[de.ptr].unrefs =
                                                 @ \o w.unrefs],
                                  file, w)
                         EXCEPT !.unrefCache[de.ptr] =
                                   recordWrite(@, off, Len(data), id),
                                !.dirtyFiles[tail] =
                                   updateNotYetSyncingBytes(@, w.bytes)]),
             dirtyPtrs |-> w.dirtyPtrs, bytes |-> w.bytes]
        WithEntry(s1, de) ==
            Written(fdWrite(getOrCreateSyncInfoLocked(s1, de), file, data, off,
                            top, topSame, de),
                    de)
        WithDirtyFile(s1) == WithEntry(s1, getEntryLocked(s1, file, TRUE).de)
    IN WithDirtyFile(getOrCreateDirtyFileLocked(s, file))

truncateExtendLocked(s, file, size, id) ==
    LET tail == tailPointer(file)
        top == getBlock(s, tail)
        topSame == ~getFileBlockCopies(s, tail, file, "blockWrite")
        Extended(w, de) ==
            [s |-> maybeForceSync(
                      [getOrCreateSyncInfoLocked(stampEntry(w.s, file, w), de)
                         EXCEPT !.unrefCache[de.ptr] =
                                   recordTruncate(@, size, id)]),
             dirtyPtrs |-> w.dirtyPtrs, bytes |-> 0, noop |-> FALSE]
        WithEntry(de) ==
            Extended(fdTruncateExtend(getOrCreateDirtyFileLocked(s, file), file,
                                      size, top, topSame, de),
                     de)
    IN WithEntry(getEntryLocked(s, file, TRUE).de)

extendsWithHoleAtCutoff(currLen, size) ==
    currLen + truncateExtendCutoffPoint <= size

\* The extension is too long for a write of zeros.
extendsWithHole(currLen, size) == currLen + truncateExtendCutoffPoint < size

\* truncateLocked of a direct file: the block holding offset size is the
\* top block and no block follows it.
truncateLocked(s, file, size, id) ==
    LET tail == tailPointer(file)
        top == getBlock(s, tail)
        topSame == ~getFileBlockCopies(s, tail, file, "blockWrite")
        currLen == Len(top.contents)
        Grown(r) ==
            [s |-> r.s, dirtyPtrs |-> r.dirtyPtrs, bytes |-> r.bytes,
             noop |-> FALSE]
        Shrunk(w, de) ==
            [s |-> stampEntry(
                      [getOrCreateDirtyFileLocked(w.s, file)
                         EXCEPT !.unrefCache[de.ptr] =
                                   recordTruncate([@ EXCEPT !.unrefs = @ \o w.unrefs],
                                                  size, id),
                                !.dirtyFiles[tail] =
                                   updateNotYetSyncingBytes(@, w.bytes)],
                      file, w),
             dirtyPtrs |-> w.dirtyPtrs, bytes |-> w.bytes, noop |-> FALSE]
        WithEntry(de) ==
            Shrunk(fdTruncateShrink(getOrCreateSyncInfoLocked(s, de), file, size,
                                    top, topSame, de),
                   de)
    IN IF extendsWithHole(currLen, size)
       THEN truncateExtendLocked(s, file, size, id)
       ELSE IF currLen < size
       THEN Grown(writeDataLocked(s, file, [j \in 1..(size - currLen) |-> 0],
                                  currLen, id))
       ELSE IF currLen = size
       THEN [s |-> s, dirtyPtrs |-> <<>>, bytes |-> 0, noop |-> TRUE]
       ELSE WithEntry(getEntryLocked(s, file, TRUE).de)

\* The deferral at the end of Write and Truncate: the call is queued for
\* replay with the blocks it dirtied.
NoDeferredState == [writes |-> <<>>, dirtyDeletes |-> <<>>, waitBytes |-> 0]

deferredStateOf(s, ref) ==
    IF ref \in DOMAIN s.deferred THEN s.deferred[ref] ELSE NoDeferredState

deferCall(s, file, call, dirtyPtrs) ==
    LET ds == deferredStateOf(s, tailPointer(file))
    IN [s EXCEPT !.deferred =
          Put(@, tailPointer(file),
              [writes |-> Append(ds.writes, call),
               dirtyDeletes |-> ds.dirtyDeletes \o dirtyPtrs,
               waitBytes |-> ds.waitBytes + call.bytes])]

\* Write and Truncate from the moment the block lock is taken.
WriteCall(data, off, id) ==
    [kind |-> "write", data |-> data, off |-> off, size |-> 0, id |-> id,
     bytes |-> 0]

TruncateCall(size, id) ==
    [kind |-> "truncate", data |-> <<>>, off |-> 0, size |-> size, id |-> id,
     bytes |-> 0]

deferKeepsFlag(r, filePath, call) ==
    IF r.s.doDeferWrite
    THEN deferCall(r.s, filePath, [call EXCEPT !.bytes = r.bytes], r.dirtyPtrs)
    ELSE r.s

\* r is what the locked part returned; the call is deferred when it
\* dirtied a block that is being synced, and the closure keeps the bytes
\* it newly dirtied.
deferIfSyncing(r, filePath, call) ==
    [(IF r.s.doDeferWrite
      THEN deferCall(r.s, filePath, [call EXCEPT !.bytes = r.bytes], r.dirtyPtrs)
      ELSE r.s) EXCEPT !.doDeferWrite = FALSE]

Write(s, node, data, off, id) ==
    deferIfSyncing(writeDataLocked(s, PathFromNode(s.nodeCache, node), data, off, id),
                   PathFromNode(s.nodeCache, node), WriteCall(data, off, id))

Truncate(s, node, size, id) ==
    deferIfSyncing(truncateLocked(s, PathFromNode(s.nodeCache, node), size, id),
                   PathFromNode(s.nodeCache, node), TruncateCall(size, id))

\* ------------------------------------------------------------ the sync
\* sync holds what one sync attempt carries outside the engine: the
\* metadata with the op added to it, the fileSyncState and the blocks that
\* StartSync handed back.  mdShared says that the op of the metadata is
\* still the very object held by unrefCache.
NoBlock == FileBlock(FALSE, <<>>, <<>>)

\* The locals of a doDeferredWritesLocked that is not running: the new path,
\* the deferred state it took, the pointers still to delete, the closures
\* still to run and the ids of those that ran.
NoReplay ==
    [newPath |-> <<>>, ds |-> NoDeferredState, deletes |-> <<>>,
     writes |-> <<>>, done |-> <<>>, stillDirty |-> FALSE]

\* The locals of an UpdatePointers that is not running: the updates still
\* to apply, the new path of the file and the nodes to return.
NoUpdate == [updates |-> <<>>, newPath |-> <<>>, affected |-> <<>>]

NoSync ==
    [phase |-> "idle", file |-> <<>>, md |-> newSyncOp, mdShared |-> FALSE,
     hasFblock |-> FALSE, fblock |-> NoBlock, fblockCached |-> FALSE,
     savedFblock |-> NoBlock, redirty |-> <<>>,
     savedSi |-> newSyncInfo(EmptyDirEntry),
     oldFileBlockPtrs |-> <<>>, newIndirectFileBlockPtrs |-> <<>>,
     dirtyDe |-> EmptyDirEntry, dirBlock |-> DirBlock(EmptyMap),
     replay |-> NoReplay, update |-> NoUpdate]

\* The op of the metadata of the sync in flight.
MdOp(s) ==
    IF s.sync.mdShared THEN s.unrefCache[tailPointer(s.sync.file)].op
    ELSE s.sync.md

\* fd.ready: every dirty leaf gets a fresh permanent pointer, is staged in
\* the block put state and is put into the clean cache under that pointer;
\* the top block is changed to point to it.  The result lists the
\* [new, old] pointer pairs in leaf order.
RECURSIVE readyLeaves(_, _, _)
readyLeaves(s, top, i) ==
    IF i > Len(top.iptrs) THEN [s |-> s, top |-> top, pairs |-> <<>>]
    ELSE LET old == top.iptrs[i].ptr
         IN IF IsDirtyBlock(s, old)
            THEN LET new == s.nextPtr
                     s1 == [s EXCEPT !.nextPtr = @ + 1,
                                     !.bcache = Put(@, new, s.dirtyBcache[old])]
                     r == readyLeaves(s1, [top EXCEPT !.iptrs[i].ptr = new,
                                                      !.iptrs[i].encSize = 1],
                                      i + 1)
                 IN [r EXCEPT !.pairs = <<[new |-> new, old |-> old]>> \o @]
            ELSE readyLeaves(s, top, i + 1)

fdReady(s, top) ==
    IF top.ind THEN readyLeaves(s, top, 1)
    ELSE [s |-> s, top |-> top, pairs |-> <<>>]

News(pairs) == [i \in DOMAIN pairs |-> pairs[i].new]

Olds(pairs) == [i \in DOMAIN pairs |-> pairs[i].old]

\* startSyncWrite without its last step: the op of the metadata stays the
\* object held by unrefCache.
keepSharedOp(s) == s

\* The last step of startSyncWrite: unrefCache keeps an independent copy of
\* the op, the original travels with the metadata.
leaveCopyInUnrefCache(s) ==
    [s EXCEPT !.sync.md = MdOp(s), !.sync.mdShared = FALSE]

startSyncWrite(s, file) ==
    LET tail == tailPointer(file)
        fblock == getBlock(s, tail)
        same == ~getFileBlockCopies(s, tail, file, "blockWrite")
        si0 == s.unrefCache[tail]
        si1 == [si0 EXCEPT !.op.writes = collapseWriteRange(si0.op)]
        si2 == IF si1.bps.isNil THEN [si1 EXCEPT !.bps = newBlockPutState]
               ELSE si1
        carried == IF si1.bps.isNil THEN <<>> ELSE si1.op.refs
        s1 == getOrCreateDirtyFileLocked(s, file)
        r == fdReady(s1, fblock)
        s2 == IF same /\ r.pairs # <<>>
              THEN PutDirty(r.s, tail, r.top, TRUE) ELSE r.s
        si3 == removeReplacedBlocks(
                  [si2 EXCEPT !.op.refs = @ \o News(r.pairs),
                              !.bps.blockStates = @ \o News(r.pairs)],
                  Olds(r.pairs))
        df == setBlockSyncing(
                  setAllOrphanedSyncing(s2.dirtyFiles[tail], Olds(r.pairs)), tail)
        pp == parentPath(file)
        s3 == [s2 EXCEPT
                 !.unrefCache[tail] = si3,
                 !.dirtyFiles[tail] = df,
                 !.sync = [phase |-> "locked", file |-> file,
                           md |-> newSyncOp, mdShared |-> TRUE,
                           hasFblock |-> fblock.ind, fblock |-> r.top,
                           fblockCached |-> same,
                           savedFblock |-> fblock,
                           redirty |-> IF fblock.ind THEN r.pairs ELSE <<>>,
                           savedSi |-> si1,
                           oldFileBlockPtrs |-> Append(Olds(r.pairs), tail),
                           newIndirectFileBlockPtrs |-> carried \o News(r.pairs),
                           dirtyDe |-> dirLookup(s2, pp, tailName(file)),
                           dirBlock |-> getBlock(s2, tailPointer(pp)),
                           replay |-> NoReplay, update |-> NoUpdate]]
    IN leaveCopyInUnrefCache(s3)

\* prepDirtyEntryForSync, run by StartSync after the block lock is released:
\* the cached unrefs are merged into the metadata.
prepDirtyEntryForSync(s) ==
    LET tail == tailPointer(s.sync.file)
        si == s.unrefCache[tail]
        s1 == IF s.sync.mdShared
              THEN [s EXCEPT !.unrefCache[tail].op.unrefs = @ \o si.unrefs]
              ELSE [s EXCEPT !.sync.md.unrefs = @ \o si.unrefs]
    IN [s1 EXCEPT !.sync.dirtyDe.encSize = si.oldInfo.encSize,
                  !.sync.phase = "started"]

\* A revert that restores the block put state but keeps the op of the
\* failed attempt.
revertKeepingOp(si, savedSi, newIndirect, blocksToRemove) ==
    [si EXCEPT !.unrefs = Without(@, Range(newIndirect)),
               !.bps = savedSi.bps]

\* revertSyncInfoAfterRecoverableError.  After *si = *savedSi the two share
\* one block put state, so the list that is filtered for the good pointers
\* is the one that was just emptied.
revertSyncInfoAfterRecoverableError(si, savedSi, newIndirect, blocksToRemove) ==
    LET unrefs == Without(si.unrefs, Range(newIndirect))
        emptied == <<>>
    IN [savedSi EXCEPT !.toCleanIfUnused = si.toCleanIfUnused,
                       !.unrefs = unrefs,
                       !.bps = IF @.isNil THEN @
                               ELSE [@ EXCEPT !.blockStates =
                                        Without(emptied, blocksToRemove)]]

RECURSIVE redirtyFound(_, _, _)
redirtyFound(s, file, pairs) ==
    IF pairs = <<>> THEN s
    ELSE redirtyFound(
            DeleteDirty(cacheBlockIfNotYetDirtyLocked(
                            s, Head(pairs).new, file,
                            s.bcache[Head(pairs).new], FALSE),
                        Head(pairs).old),
            file, Tail(pairs))

RECURSIVE unorphanAll(_, _)
unorphanAll(df, olds) ==
    IF olds = <<>> THEN df
    ELSE unorphanAll(setBlockOrphaned(df, Head(olds), FALSE), Tail(olds))

RECURSIVE FoundPairs(_, _)
FoundPairs(pairs, top) ==
    IF pairs = <<>> THEN <<>>
    ELSE (IF \E i \in DOMAIN top.iptrs : top.iptrs[i].ptr = Head(pairs).new
          THEN <<Head(pairs)>> ELSE <<>>) \o FoundPairs(Tail(pairs), top)

fixChildBlocksAfterRecoverableErrorLocked(s, file, redirty) ==
    LET tail == tailPointer(file)
        s1 == IF tail \in DOMAIN s.dirtyFiles
              THEN [s EXCEPT !.dirtyFiles[tail] = unorphanAll(@, Olds(redirty))]
              ELSE s
    IN IF ~IsDirtyBlock(s1, tail) \/ s1.dirtyBcache[tail].kind # "file"
       THEN [s1 EXCEPT !.doDeferWrite = FALSE]
       ELSE LET top == s1.dirtyBcache[tail]
                found == FoundPairs(redirty, top)
                cleared == [top EXCEPT !.iptrs =
                              [i \in DOMAIN @ |->
                                 IF @[i].ptr \in Range(News(found))
                                 THEN [@[i] EXCEPT !.encSize = 0] ELSE @[i]]]
                s2 == IF found # <<>> THEN PutDirty(s1, tail, cleared, TRUE) ELSE s1
            IN [redirtyFound(s2, file, found) EXCEPT !.doDeferWrite = FALSE]

\* A choice of the orphans that takes every pointer.
EveryOneOf(df, ptrs) == ptrs

RECURSIVE OrphanedOf(_, _)
OrphanedOf(df, ptrs) ==
    IF ptrs = <<>> THEN <<>>
    ELSE (IF isBlockOrphaned(df, Head(ptrs)) THEN <<Head(ptrs)>> ELSE <<>>)
           \o OrphanedOf(df, Tail(ptrs))

\* A check for nil that never finds it.
errNeverNil(err) == FALSE

errIsNil(err) == err = "nil"

\* An end of CleanupSyncState that leaves the syncing blocks as they are.
keepSyncingBlocks(s, tail) == s

\* The end of CleanupSyncState: the blocks that were syncing are dirty.
resetSyncingBlocks(s, tail) ==
    IF tail \in DOMAIN s.dirtyFiles
    THEN [s EXCEPT !.dirtyFiles[tail] = resetSyncingBlocksToDirty(@)]
    ELSE s

\* The unrecoverable branch of CleanupSyncState.
dropDeferred(s, tail, oldFileBlockPtrs) ==
    LET ds == deferredStateOf(s, tail)
        s1 == IF tail \in DOMAIN s.dirtyFiles
              THEN DeleteDirtyAll(
                      [s EXCEPT !.dirtyFiles[tail] =
                                   updateNotYetSyncingBytes(@, -ds.waitBytes)],
                      OrphanedOf(s.dirtyFiles[tail], oldFileBlockPtrs))
              ELSE s
    IN [s1 EXCEPT !.deferred = Delete(@, tail)]

\* CleanupSyncState.  locked says whether the block lock was taken.
CleanupSyncState(s, blocksToRemove, err, mdId) ==
    LET file == s.sync.file
        tail == tailPointer(file)
        hasSi == tail \in DOMAIN s.unrefCache
        s0 == notifyErrListenersLocked(s, tail, err)
        s1 == IF hasSi
              THEN [s0 EXCEPT !.unrefCache[tail].op = resetUpdateState(@),
                              !.unrefCache[tail].toCleanIfUnused =
                        Append(@, [md |-> mdId,
                                   bps |-> s.unrefCache[tail].bps.blockStates])]
              ELSE s0
        s2 == IF isRecoverableBlockError(err)
              THEN LET s3 == IF hasSi
                             THEN [s1 EXCEPT !.unrefCache[tail] =
                                     revertSyncInfoAfterRecoverableError(
                                        @, s.sync.savedSi,
                                        s.sync.newIndirectFileBlockPtrs,
                                        blocksToRemove)]
                             ELSE s1
                   IN IF s.sync.hasFblock
                      THEN fixChildBlocksAfterRecoverableErrorLocked(
                              IF s3.sync.fblockCached
                              THEN PutDirty(s3, tail, s.sync.savedFblock, TRUE)
                              ELSE s3,
                              file, s.sync.redirty)
                      ELSE s3
              ELSE dropDeferred(s1, tail, s.sync.oldFileBlockPtrs)
    IN IF errIsNil(err) THEN [s |-> s, locked |-> FALSE]
       ELSE [s |-> resetSyncingBlocks(s2, tail), locked |-> TRUE]

\* A queued closure of Write or Truncate, run on the new path.
replayCall(s, oldPath, newPath, call) ==
    LET s1 == [getOrCreateDirtyFileLocked(s, oldPath)
                 EXCEPT !.dirtyFiles[tailPointer(oldPath)] =
                           updateNotYetSyncingBytes(@, -call.bytes)]
    IN IF call.kind = "write"
       THEN writeDataLocked(s1, newPath, call.data, call.off, call.id).s
       ELSE truncateLocked(s1, newPath, call.size, call.id).s

RECURSIVE replayAll(_, _, _, _)
replayAll(s, oldPath, newPath, calls) ==
    IF calls = <<>> THEN s
    ELSE replayAll(replayCall(s, oldPath, newPath, Head(calls)),
                   oldPath, newPath, Tail(calls))

\* A result that says the file is dirty whatever was queued.
alwaysStillDirty(ds) == TRUE

\* stillDirty of doDeferredWritesLocked.
stillDirtyOf(ds) == Len(ds.writes) # 0

doDeferredWritesLocked(s, oldPath, newPath) ==
    LET ref == tailPointer(oldPath)
        ds == deferredStateOf(s, ref)
        s1 == [s EXCEPT !.deferred = Delete(@, ref)]
    IN [s |-> replayAll(DeleteDirtyAll(s1, ds.dirtyDeletes), oldPath, newPath,
                        ds.writes),
        stillDirty |-> stillDirtyOf(ds)]

clearCacheInfoLocked(s, file) ==
    [s EXCEPT !.unrefCache = Delete(@, tailPointer(file)),
              !.dirtyFiles = Delete(@, tailPointer(file))]

RECURSIVE DeleteDirtySet(_, _)
DeleteDirtySet(s, ps) ==
    IF ps = {} THEN s
    ELSE LET p == CHOOSE q \in ps : TRUE
         IN DeleteDirtySet(DeleteDirty(s, p), ps \ {p})

clearAllDirtyDirsLocked(s) ==
    [DeleteDirtySet(s, DOMAIN s.dirtyDirs)
        EXCEPT !.dirtyDirs = EmptyMap, !.dirtyRootDirEntry = <<>>]

\* FinishSyncLocked.  The readied blocks it drops from the clean cache stay
\* on the block server, which bcache stands for; the blocks of failed
\* attempts are handed to the block manager outside the engine.
FinishSyncLocked(s, oldPath, newPath) ==
    LET Cleared(r) ==
            [s |-> [clearCacheInfoLocked(r.s, oldPath) EXCEPT !.sync = NoSync],
             stillDirty |-> r.stillDirty]
    IN Cleared(doDeferredWritesLocked(
                  DeleteDirtyAll(s, s.sync.oldFileBlockPtrs), oldPath, newPath))

\* updatePointer: the node holding the old reference now holds the new one.
updatePointer(s, oldPtr, newPtr) ==
    LET n == NodeOfRef(s.nodeCache, oldPtr)
    IN IF n = "" THEN s ELSE [s EXCEPT !.nodeCache[n].ptr = newPtr]

RECURSIVE UpdatePointers(_, _)
UpdatePointers(s, updates) ==
    IF updates = <<>> THEN s
    ELSE UpdatePointers(updatePointer(s, Head(updates).unref, Head(updates).ref),
                        Tail(updates))

\* The part of a successful sync that the caller of the engine performs
\* between StartSync and FinishSyncLocked: the top block and the parent
\* directory, holding the entry captured by StartSync, are readied under
\* fresh pointers and put to the server.
commitSync(s) ==
    LET file == s.sync.file
        pp == parentPath(file)
        newTop == s.nextPtr
        newDir == s.nextPtr + 1
        de == [s.sync.dirtyDe EXCEPT !.ptr = newTop, !.encSize = 1]
        dir == [s.sync.dirBlock EXCEPT !.children = Put(@, tailName(file), de)]
    IN [s |-> [s EXCEPT !.nextPtr = @ + 2,
                        !.bcache = Put(Put(@, newTop, s.sync.fblock), newDir, dir)],
        updates |-> <<[unref |-> tailPointer(pp), ref |-> newDir],
                      [unref |-> tailPointer(file), ref |-> newTop]>>,
        newPath |-> <<[ptr |-> newDir, name |-> pp[1].name],
                      [ptr |-> newTop, name |-> tailName(file)]>>]

\* ---------------------------------------------------------- the queries
Read(s, node, off, n) == fdRead(s, PathFromNode(s.nodeCache, node), off, n)

IsDirty(s, file) ==
    \/ IsDirtyBlock(s, tailPointer(file))
    \/ tailPointer(file) \in DOMAIN s.dirtyFiles
    \/ tailPointer(file) \in DOMAIN s.unrefCache

GetDirtyFileBlockRefs(s) == DOMAIN s.unrefCache

GetDirtyDirBlockRefs(s) == DOMAIN s.dirtyDirs

\* ------------------------------------------------------- the file engine
\* One file f under the root directory.  Either f is a direct file of two
\* bytes, or it is an indirect file with two leaves of one byte each.
RootPtr == 1

DirectInit ==
    [bcache |-> (RootPtr :> DirBlock("f" :> MakeDirEntry(2, "File", 2, 1, 0, 0)))
                @@ (2 :> FileBlock(FALSE, <<0, 0>>, <<>>)),
     nextPtr |-> 3]

IndirectInit ==
    [bcache |-> (RootPtr :> DirBlock("f" :> MakeDirEntry(2, "File", 2, 1, 0, 0)))
                @@ (2 :> FileBlock(TRUE, <<>>,
                                   <<[ptr |-> 3, encSize |-> 1, off |-> 0],
                                     [ptr |-> 4, encSize |-> 1, off |-> 1]>>))
                @@ (3 :> FileBlock(FALSE, <<0>>, <<>>))
                @@ (4 :> FileBlock(FALSE, <<0>>, <<>>)),
     nextPtr |-> 5]

\* ------------------------------------------------------------ history
\* What the properties need to remember of a run.
\*   lastWrite  the last Write, until a Truncate follows it
\*   during     the non-empty Writes issued while the sync was in flight
\*   pending    those Writes once that sync is over, with how it ended
\*   outcome    how the last sync ended: "success" or its error
\*   counts     for every pending Write, how often the op of the StartSync
\*              that just took the lock held its range
\*   mdAtStart  the op of the metadata when StartSync returned
\*   attempt    the leaves ref'd by the metadata of the attempt in flight
\*   chain      the first attempt of a run of recoverable failures that no
\*              Write, Truncate or ClearCacheInfo interrupted
\*   retry      the chain the attempt in flight continues
\*   committed  first and committed refs of the retry that just succeeded
\*   stillDirty what the FinishSyncLocked that just returned handed back
\*   locked     the last CleanupSyncState took the block lock
\*   lastOp     the last mutation of the directory cache
\*   before     what was observable before it
\*   undone     its undo closure was invoked
NoWrite == [valid |-> FALSE, off |-> 0, data |-> <<>>, inSync |-> FALSE]

NoRefs == [slots |-> {}, n |-> 0]

\* The last mutation of the directory cache with its arguments, and what
\* was observable before it.
NoDirOp ==
    [kind |-> "none", noop |-> FALSE, replaced |-> FALSE, dir |-> <<>>,
     name |-> "", newDir |-> <<>>, newName |-> "", newDe |-> EmptyDirEntry,
     replacedPtr |-> 0, failAt |-> "", applied |-> FALSE]

NoSnapshot == [taken |-> FALSE]

NoChain == [valid |-> FALSE, refs |-> NoRefs]

NoCommitted == [valid |-> FALSE, first |-> NoRefs, last |-> NoRefs]

\* The file as it was before the last Write, and the range of that Write.
NoPreWrite == [valid |-> FALSE, size |-> 0, contents |-> <<>>, off |-> 0,
               len |-> 0]

\* Nothing was looked up or asked yet.
NoSeen ==
    [looked |-> FALSE, node |-> "", entryPtr |-> 0, nodePtr |-> 0,
     asked |-> FALSE, dirty |-> FALSE, queued |-> FALSE]

\* No call has failed before the file was reached.
\* No SearchForNodes call is in flight.
\* No cleanUpUnusedBlocks call was made.
NoCleanup ==
    [called |-> FALSE, toClean |-> <<>>, refs |-> {}, merged |-> "merged",
     deletions |-> <<>>]

\* No fetch is in flight.  clean is the set of pointers the clean block
\* cache holds, begins and ends count the read notifications of the call,
\* result is what the last call returned.
NoFetch ==
    [phase |-> "idle", entry |-> "", rtype |-> "", lock |-> "",
     ptr |-> 0, versionOk |-> TRUE, notifyValid |-> FALSE,
     lifetime |-> "", released |-> FALSE, notified |-> FALSE,
     clean |-> {}, begins |-> 0, ends |-> 0, result |-> "none"]

NoSearch ==
    [phase |-> "idle", called |-> FALSE, live |-> TRUE, scratch |-> EmptyMap,
     rootPtr |-> 0, ptrs |-> {}, newPtrs |-> {}, rootNode |-> "",
     stack |-> <<>>, nodeMap |-> EmptyMap, retried |-> FALSE, err |-> "nil",
     created |-> {}]

\* What the last FastForwardAllNodes call was given and returned: the calls
\* so far, the root pointer of the revision, the changes and the error, and
\* whether a revision so far renamed one cached entry over another.
NoFF == [n |-> 0, md |-> RootPtr, changes |-> <<>>, err |-> FALSE,
         moved |-> FALSE]

NoFailed == [err |-> "none", op |-> "none", node |-> "", flip |-> FALSE]

\* No file data step has failed: n counts the failures, path is the one
\* of the last, with the unrefs and the newly dirtied bytes it returned.
NoDataErr == [n |-> 0, path |-> "none", unrefs |-> <<>>, bytes |-> 0]

InitHist ==
    [nWrites |-> 0, nSyncs |-> 0, nDirOps |-> 0, lastWrite |-> NoWrite,
     during |-> {}, pending |-> {}, outcome |-> "none", counts |-> {},
     mdAtStart |-> newSyncOp, attempt |-> NoRefs, quiet |-> FALSE,
     chain |-> NoChain, retry |-> NoChain,
     committed |-> NoCommitted, stillDirty |-> FALSE, locked |-> FALSE,
     extendBy |-> 0, sameSize |-> FALSE, preWrite |-> NoPreWrite,
     back |-> FALSE, failed |-> NoFailed, dataErr |-> NoDataErr,
     removed |-> {},
     seen |-> NoSeen, returned |-> <<>>, ff |-> NoFF,
     lastOp |-> NoDirOp, undone |-> FALSE, before |-> NoSnapshot]

\* How often the sub-operations ws hold the entry of call id.
RECURSIVE Count(_, _)
Count(ws, id) ==
    IF ws = <<>> THEN 0
    ELSE (IF Head(ws).id = id THEN 1 ELSE 0) + Count(Tail(ws), id)

\* The refs of an op by the leaf of the top block they stand for (0 for a
\* ref that is no leaf of it), and their number.
SlotOf(top, p) ==
    IF \E i \in DOMAIN top.iptrs : top.iptrs[i].ptr = p
    THEN CHOOSE i \in DOMAIN top.iptrs : top.iptrs[i].ptr = p
    ELSE 0

RefSlots(refs, top) ==
    [slots |-> {SlotOf(top, refs[i]) : i \in DOMAIN refs}, n |-> Len(refs)]

\* No Write or Truncate is in flight.  n is the byte count passed to
\* RequestPermissionToDirty, c says that the admission channel is ready, err
\* is the error the wait read last, ret what the call returned ("none"
\* while it runs), locked that it finished the part under the block lock,
\* updates the arguments of its calls of UpdateUnsyncedBytes.
NoCall ==
    [op |-> "none", node |-> "", data |-> <<>>, off |-> 0, size |-> 0, n |-> 0,
     seq |-> 0, c |-> FALSE, err |-> "nil", ret |-> "none", locked |-> FALSE,
     updates |-> <<>>]

\* No GetCleanEncodedBlocksSizeSum is in flight.  ptrCh and sumCh are the
\* buffers of the two channels, closed says that ptrCh was closed, workers
\* holds for each goroutine of the group where it stands and the pointer
\* it fetches, groupErr is the first error of the group ("nil" while its
\* context is live) and ret the pair the call returned.
NoSizeSum ==
    [ptrs |-> <<>>, ignore |-> {}, ptrCh |-> <<>>, closed |-> FALSE,
     sumCh |-> <<>>, workers |-> <<>>, groupErr |-> "nil", ret |-> <<>>]

InitCommon ==
    /\ search = NoSearch
    /\ fetch = NoFetch
    /\ lbc = EmptyMap
    /\ cleanup = NoCleanup
    /\ dirtyBcache = EmptyMap
    /\ dirtyFiles = EmptyMap
    /\ unrefCache = EmptyMap
    /\ deferred = EmptyMap
    /\ doDeferWrite = FALSE
    /\ dirtyDirs = EmptyMap
    /\ dirtyRootDirEntry = <<>>
    /\ errListener = <<>>
    /\ clock = 0
    /\ sync = NoSync
    /\ pc = "idle"
    /\ undo = NoUndo
    /\ client = NoCall
    /\ hist = InitHist

\* A dirty block cache that asks for no sync.
QuietCache ==
    /\ shouldForceSync = FALSE
    /\ forceSyncChan = "room"
    /\ sizeSum = NoSizeSum

Init ==
    /\ InitCommon
    /\ QuietCache
    /\ \E layout \in {DirectInit, IndirectInit} :
          /\ bcache = layout.bcache
          /\ nextPtr = layout.nextPtr
    /\ nodeCache = ("root" :> MakeNode(RootPtr, "", "root"))
                   @@ ("f" :> MakeNode(2, "root", "f"))

FilePath == PathFromNode(nodeCache, "f")

FileIsIndirect == getBlock(Fbo, tailPointer(FilePath)).ind

FileSize == Len(FileContents(Fbo, FilePath))

\* The bytes of a write name the call: its sequence number, repeated.
Payload(len, id) == [j \in 1..len |-> id]

\* maybeWaitOnDeferredWrites registers the error listener of the call.
\* An UpdatePointers that lets go of the block lock between its steps.
updateLocksNothing(s) == FALSE

\* UpdatePointers holds the block lock from its first update to the return
\* of afterUpdateFn.
updateHoldsLock(s) == s.phase = "updating"

\* The block lock is held across the steps of a FinishSyncLocked and of an
\* UpdatePointers.
\* A fetch holds the block lock while it waits for the block server unless
\* it released the lock around the call.
FetchHoldsLock == fetch.phase = "remote" /\ ~fetch.released

waitKeepsLock(p) == p = "waiting"

\* maybeWaitOnDeferredWrites takes the block lock in registerErr, which
\* unlocks it when it returns: the select loop waits without it.
waitHoldsLock(p) == FALSE

BlockLockHeld ==
    \/ sync.phase = "replaying"
    \/ updateHoldsLock(sync)
    \/ FetchHoldsLock
    \/ waitHoldsLock(pc)

Register ==
    /\ pc = "idle"
    /\ ~BlockLockHeld
    /\ hist.nWrites < MaxWrites
    /\ Install(registerErr(Fbo, FilePath))
    /\ pc' = "waiting"
    /\ UNCHANGED <<undo, client, sizeSum, search, fetch, lbc, cleanup, hist>>

\* The context of the waiting call is cancelled.
WaitCancelled ==
    /\ pc = "waiting"
    /\ Install(abandonListener(Fbo))
    /\ pc' = "idle"
    /\ UNCHANGED <<undo, client, sizeSum, search, fetch, lbc, cleanup, hist>>

\* The wait receives an error from its listener: after a context error it
\* registers a fresh listener and goes on waiting, any other error is
\* returned.
WaitError ==
    /\ pc = "waiting"
    /\ errListener # <<>>
    /\ IF Head(errListener) \in ContextErrors
       THEN /\ Install(registerErr(Fbo, FilePath))
            /\ pc' = "waiting"
       ELSE /\ Install(abandonListener(Fbo))
            /\ pc' = "idle"
    /\ UNCHANGED <<undo, client, sizeSum, search, fetch, lbc, cleanup, hist>>

WriteLocked ==
    /\ pc = "waiting"
    /\ ~BlockLockHeld
    /\ \E off \in Offsets, len \in Lengths :
          LET id == hist.nWrites + 1
              inSync == sync.phase = "started"
          IN /\ FileIsIndirect => off + len <= FileSize
             /\ len = 0 => off = 0
             /\ Install(abandonListener(Write(Fbo, "f", Payload(len, id), off, id)))
             /\ hist' = [hist EXCEPT
                           !.nWrites = id,
                           !.lastWrite = [valid |-> TRUE, off |-> off,
                                          data |-> Payload(len, id),
                                          inSync |-> inSync],
                           !.during = IF inSync /\ len > 0 THEN @ \cup {id} ELSE @,
                           !.quiet = FALSE,
                           !.chain = NoChain, !.extendBy = 0, !.sameSize = FALSE,
                           !.preWrite = NoPreWrite, !.back = FALSE,
                           !.committed = NoCommitted, !.stillDirty = FALSE]
    /\ pc' = "idle"
    /\ UNCHANGED <<undo, client, sizeSum, search, fetch, lbc, cleanup>>

TruncateLocked ==
    /\ pc = "waiting"
    /\ ~BlockLockHeld
    /\ ~FileIsIndirect
    /\ \E size \in Sizes :
          /\ Install(abandonListener(Truncate(Fbo, "f", size, hist.nWrites + 1)))
          /\ hist' = [hist EXCEPT !.nWrites = @ + 1, !.lastWrite = NoWrite,
                                  !.quiet = FALSE, !.chain = NoChain,
                                  !.extendBy = 0, !.sameSize = FALSE,
                           !.preWrite = NoPreWrite, !.back = FALSE,
                                  !.committed = NoCommitted, !.stillDirty = FALSE]
    /\ pc' = "idle"
    /\ UNCHANGED <<undo, client, sizeSum, search, fetch, lbc, cleanup>>

\* StartSync up to the release of the block lock.
StartSyncWrite ==
    /\ sync.phase = "idle"
    /\ ~BlockLockHeld
    /\ hist.nSyncs < MaxSyncs
    /\ tailPointer(FilePath) \in DOMAIN unrefCache
    /\ Install(startSyncWrite(Fbo, FilePath))
    /\ hist' = [hist EXCEPT
                  !.nSyncs = @ + 1,
                  !.counts =
                     {[n |-> Count(unrefCache[tailPointer(FilePath)].op.writes, id),
                       outcome |-> hist.outcome] : id \in hist.pending},
                  !.pending = {},
                  !.outcome = "none",
                  !.committed = NoCommitted, !.stillDirty = FALSE,
                  !.locked = FALSE,
                  !.quiet = TRUE,
                  !.retry = hist.chain,
                  !.chain = NoChain]
    /\ UNCHANGED <<pc, undo, client, sizeSum, search, fetch, lbc, cleanup>>

\* The rest of StartSync.
StartSyncReturn ==
    /\ sync.phase = "locked"
    /\ LET s == prepDirtyEntryForSync(Fbo)
       IN /\ Install(s)
          /\ hist' = [hist EXCEPT
                        !.counts = {},
                        !.mdAtStart = MdOp(s),
                        !.attempt = RefSlots(MdOp(s).refs, s.sync.fblock)]
    /\ UNCHANGED <<pc, undo, client, sizeSum, search, fetch, lbc, cleanup>>

\* The blocks and the metadata were put: UpdatePointers runs
\* FinishSyncLocked under the block lock.
SyncSucceeds ==
    /\ sync.phase = "started"
    /\ ~BlockLockHeld
    /\ LET Finished(r) ==
              /\ Install([r.s EXCEPT !.sync.phase = "finished"])
              /\ hist' = [hist EXCEPT
                            !.pending = hist.during, !.during = {},
                            !.outcome = "success",
                            !.stillDirty = r.stillDirty,
                            !.committed =
                               IF hist.retry.valid
                               THEN [valid |-> TRUE, first |-> hist.retry.refs,
                                     last |-> RefSlots(MdOp(Fbo).refs, sync.fblock)]
                               ELSE @,
                            !.mdAtStart = newSyncOp, !.attempt = NoRefs,
                            !.retry = NoChain, !.chain = NoChain]
           Committed(c) ==
              Finished(FinishSyncLocked(
                          clearAllDirtyDirsLocked(UpdatePointers(c.s, c.updates)),
                          sync.file, c.newPath))
       IN Committed(commitSync(Fbo))
    /\ UNCHANGED <<pc, undo, client, sizeSum, search, fetch, lbc, cleanup>>

\* The sync is over for its caller.
syncReturns(s) == [s EXCEPT !.sync = NoSync]

\* The scoped cleanup of a sync that succeeded: CleanupSyncState with nil.
SyncCleanup ==
    /\ sync.phase = "finished"
    /\ LET r == CleanupSyncState(Fbo, {}, "nil", hist.nSyncs)
       IN /\ Install(syncReturns(r.s))
          /\ hist' = [hist EXCEPT !.locked = r.locked]
    /\ UNCHANGED <<pc, undo, client, sizeSum, search, fetch, lbc, cleanup>>

\* The put failed: CleanupSyncState with a recoverable or another error.
SyncErrors == {"recoverable", "other", "canceled"}

SyncFails ==
    /\ sync.phase = "started"
    /\ ~BlockLockHeld
    /\ \E err \in SyncErrors :
       \E bad \in {<<>>} \cup {<<p>> : p \in Range(sync.newIndirectFileBlockPtrs)} :
       LET recoverable == isRecoverableBlockError(err)
           r == CleanupSyncState(Fbo, Range(bad), err, hist.nSyncs)
       IN
          /\ ~recoverable => bad = <<>>
          /\ Install(syncReturns(r.s))
          /\ hist' = [hist EXCEPT
                        !.pending = hist.during, !.during = {},
                        !.locked = r.locked,
                        !.outcome = err,
                        !.removed = IF recoverable /\ ~sync.savedSi.bps.isNil
                                    THEN Range(bad) ELSE {},
                        !.chain =
                           IF recoverable /\ hist.quiet
                           THEN [valid |-> TRUE,
                                 refs |-> IF hist.retry.valid
                                          THEN hist.retry.refs ELSE hist.attempt]
                           ELSE NoChain,
                        !.mdAtStart = newSyncOp, !.attempt = NoRefs,
                        !.retry = NoChain]
    /\ UNCHANGED <<pc, undo, client, sizeSum, search, fetch, lbc, cleanup>>

ClearCacheInfo ==
    /\ sync.phase = "idle"
    /\ Install(clearCacheInfoLocked(Fbo, FilePath))
    /\ hist' = [hist EXCEPT !.pending = {}, !.outcome = "none",
                            !.chain = NoChain, !.committed = NoCommitted,
                            !.stillDirty = FALSE, !.locked = FALSE]
    /\ UNCHANGED <<pc, undo, client, sizeSum, search, fetch, lbc, cleanup>>

Next ==
    \/ Register
    \/ WaitCancelled
    \/ WaitError
    \/ WriteLocked
    \/ TruncateLocked
    \/ StartSyncWrite
    \/ StartSyncReturn
    \/ SyncSucceeds
    \/ SyncCleanup
    \/ SyncFails
    \/ ClearCacheInfo

Spec == Init /\ [][Next]_vars

\* ------------------------------------------- truncates at the cutoff
\* Truncate of a direct file to the two sizes around the cutoff of the
\* extension with a hole: by truncateExtendCutoffPoint bytes beyond the
\* end of the file, and by one byte more.  A file that was extended is
\* not extended again.
TruncateAtCutoff ==
    /\ pc = "waiting"
    /\ ~FileIsIndirect
    /\ hist.nWrites < MaxWrites
    /\ FileSize < truncateExtendCutoffPoint
    /\ getEntryLocked(Fbo, FilePath, TRUE).de.size = FileSize
    /\ \E more \in {truncateExtendCutoffPoint, truncateExtendCutoffPoint + 1} :
          /\ Install(abandonListener(
                        Truncate(Fbo, "f", FileSize + more, hist.nWrites + 1)))
          /\ hist' = [hist EXCEPT !.nWrites = @ + 1, !.lastWrite = NoWrite,
                                  !.quiet = FALSE, !.chain = NoChain,
                                  !.extendBy = more, !.sameSize = FALSE,
                           !.preWrite = NoPreWrite, !.back = FALSE,
                                  !.committed = NoCommitted, !.stillDirty = FALSE]
    /\ pc' = "idle"
    /\ UNCHANGED <<undo, client, sizeSum, search, fetch, lbc, cleanup>>

\* A whole Truncate of a direct file to the length it has, from the
\* request to the return, with nothing running in between: the wait
\* registers its listener and is admitted at once.
TruncateSameSize ==
    /\ pc = "idle"
    /\ ~FileIsIndirect
    /\ hist.nWrites < MaxWrites
    /\ getEntryLocked(Fbo, FilePath, TRUE).de.size = FileSize
    /\ Install(abandonListener(
                  Truncate(registerErr(Fbo, FilePath), "f", FileSize,
                           hist.nWrites + 1)))
    /\ hist' = [hist EXCEPT !.nWrites = @ + 1, !.lastWrite = NoWrite,
                            !.quiet = FALSE, !.chain = NoChain,
                            !.extendBy = 0, !.sameSize = TRUE,
                            !.preWrite = NoPreWrite, !.back = FALSE,
                            !.committed = NoCommitted, !.stillDirty = FALSE]
    /\ UNCHANGED <<pc, undo, client, sizeSum, search, fetch, lbc, cleanup>>

\* A whole Write to a direct file, at an offset up to its end, with
\* nothing running in between.
WriteWhole ==
    /\ pc = "idle"
    /\ ~BlockLockHeld
    /\ ~FileIsIndirect
    /\ hist.nWrites < MaxWrites
    /\ FileSize < truncateExtendCutoffPoint
    /\ getEntryLocked(Fbo, FilePath, TRUE).de.size = FileSize
    /\ \E off \in 0..FileSize, len \in Lengths :
          LET id == hist.nWrites + 1
          IN /\ Install(abandonListener(
                           Write(registerErr(Fbo, FilePath), "f",
                                 Payload(len, id), off, id)))
             /\ hist' = [hist EXCEPT
                           !.nWrites = id, !.lastWrite = NoWrite,
                           !.quiet = FALSE, !.chain = NoChain,
                           !.extendBy = 0, !.sameSize = FALSE,
                           !.preWrite = [valid |-> TRUE, size |-> FileSize,
                                         contents |-> FileContents(Fbo, FilePath),
                                         off |-> off, len |-> len],
                           !.back = FALSE,
                           !.committed = NoCommitted, !.stillDirty = FALSE]
    /\ UNCHANGED <<pc, undo, client, sizeSum, search, fetch, lbc, cleanup>>

\* A whole Truncate of the file to the size it had before the Write that
\* was the last call.
TruncateBack ==
    /\ pc = "idle"
    /\ hist.preWrite.valid
    /\ ~hist.back
    /\ hist.nWrites < MaxWrites
    /\ Install(abandonListener(
                  Truncate(registerErr(Fbo, FilePath), "f", hist.preWrite.size,
                           hist.nWrites + 1)))
    /\ hist' = [hist EXCEPT !.nWrites = @ + 1, !.back = TRUE]
    /\ UNCHANGED <<pc, undo, client, sizeSum, search, fetch, lbc, cleanup>>

NextCut ==
    \/ Register
    \/ WriteLocked
    \/ TruncateLocked
    \/ TruncateAtCutoff
    \/ TruncateSameSize

SpecCut == Init /\ [][NextCut]_vars

\* Whole Writes, each of which may be followed by the Truncate back to the
\* size before it, while the file is synced.
NextBack ==
    \/ WriteWhole
    \/ TruncateBack
    \/ StartSyncWrite
    \/ StartSyncReturn
    \/ SyncSucceeds
    \/ SyncCleanup
    \/ SyncFails

SpecBack == Init /\ [][NextBack]_vars

\* ------------------------------------ the replay of the deferred writes
\* FinishSyncLocked step by step, under the block lock that UpdatePointers
\* holds: the pointers are updated, the old pointers leave the dirty
\* cache, doDeferredWritesLocked takes the deferred state of the old path
\* and removes it from fbo.deferred.
FinishStarts ==
    /\ sync.phase = "started"
    /\ LET c == commitSync(Fbo)
           s0 == DeleteDirtyAll(
                    clearAllDirtyDirsLocked(UpdatePointers(c.s, c.updates)),
                    sync.oldFileBlockPtrs)
           ref == tailPointer(sync.file)
           ds == deferredStateOf(s0, ref)
       IN /\ Install([s0 EXCEPT
                        !.deferred = Delete(@, ref),
                        !.sync.phase = "replaying",
                        !.sync.replay =
                           [newPath |-> c.newPath, ds |-> ds,
                            deletes |-> ds.dirtyDeletes, writes |-> ds.writes,
                            done |-> <<>>, stillDirty |-> stillDirtyOf(ds)]])
          /\ hist' = [hist EXCEPT
                        !.pending = hist.during, !.during = {},
                        !.outcome = "success",
                        !.stillDirty = stillDirtyOf(ds),
                        !.committed =
                           IF hist.retry.valid
                           THEN [valid |-> TRUE, first |-> hist.retry.refs,
                                 last |-> RefSlots(MdOp(Fbo).refs, sync.fblock)]
                           ELSE @,
                        !.mdAtStart = newSyncOp, !.attempt = NoRefs,
                        !.retry = NoChain, !.chain = NoChain]
    /\ UNCHANGED <<pc, undo, client, sizeSum, search, fetch, lbc, cleanup>>

\* The first loop of doDeferredWritesLocked deletes one pointer of
\* dirtyDeletes from the dirty cache.
ReplayDelete ==
    /\ sync.phase = "replaying"
    /\ sync.replay.deletes # <<>>
    /\ Install([DeleteDirty(Fbo, Head(sync.replay.deletes))
                  EXCEPT !.sync.replay.deletes = Tail(@)])
    /\ UNCHANGED <<pc, undo, client, sizeSum, search, fetch, lbc, cleanup, hist>>

\* A second loop that does not wait for the first.
closuresRunEarly(replay) == TRUE

\* The second loop follows the first.
closuresMayRun(replay) == replay.deletes = <<>>

\* The second loop runs the next closure, which returns nil.
ReplayClosure ==
    /\ sync.phase = "replaying"
    /\ closuresMayRun(sync.replay)
    /\ sync.replay.writes # <<>>
    /\ LET call == Head(sync.replay.writes)
       IN Install([replayCall(Fbo, sync.file, sync.replay.newPath, call)
                     EXCEPT !.sync.replay.writes = Tail(@),
                            !.sync.replay.done = Append(@, call.id)])
    /\ UNCHANGED <<pc, undo, client, sizeSum, search, fetch, lbc, cleanup, hist>>

\* The next closure returns an error: it has lowered notYetSyncingBytes
\* and its writeGetFileLocked failed.  doDeferredWritesLocked and
\* FinishSyncLocked return the error and the block lock is released.
ReplayFails ==
    /\ sync.phase = "replaying"
    /\ closuresMayRun(sync.replay)
    /\ sync.replay.writes # <<>>
    /\ LET call == Head(sync.replay.writes)
           old == tailPointer(sync.file)
       IN Install([getOrCreateDirtyFileLocked(Fbo, sync.file)
                     EXCEPT !.dirtyFiles[old] =
                               updateNotYetSyncingBytes(@, -call.bytes),
                            !.sync.phase = "failed",
                            !.sync.replay = NoReplay])
    /\ UNCHANGED <<pc, undo, client, sizeSum, search, fetch, lbc, cleanup, hist>>

\* Every closure ran: FinishSyncLocked clears the cached info of the old
\* path and returns.
ReplayEnds ==
    /\ sync.phase = "replaying"
    /\ sync.replay.deletes = <<>>
    /\ sync.replay.writes = <<>>
    /\ Install([clearCacheInfoLocked(Fbo, sync.file)
                  EXCEPT !.sync = [NoSync EXCEPT !.phase = "finished"]])
    /\ UNCHANGED <<pc, undo, client, sizeSum, search, fetch, lbc, cleanup, hist>>

\* The scoped cleanup of a sync whose FinishSyncLocked returned an error:
\* CleanupSyncState with that error.
FailedCleanup ==
    /\ sync.phase = "failed"
    /\ LET r == CleanupSyncState(Fbo, {}, "other", hist.nSyncs)
       IN /\ Install(syncReturns(r.s))
          /\ hist' = [hist EXCEPT !.locked = r.locked, !.outcome = "other",
                                  !.stillDirty = FALSE]
    /\ UNCHANGED <<pc, undo, client, sizeSum, search, fetch, lbc, cleanup>>

NextReplay ==
    \/ Register
    \/ WriteLocked
    \/ TruncateLocked
    \/ StartSyncWrite
    \/ StartSyncReturn
    \/ FinishStarts
    \/ ReplayDelete
    \/ ReplayClosure
    \/ ReplayFails
    \/ ReplayEnds
    \/ FailedCleanup
    \/ SyncCleanup

SpecReplay == Init /\ [][NextReplay]_vars

\* ------------------------------------ UpdatePointers step by step
\* A pointer is a block id with a reference nonce: the id plus RefBase
\* times the nonce.
RefBase == 100

BlockID(ptr) == ptr % RefBase

\* What updatePointer returns: the node whose reference was updated when
\* the block id is a new one, "" for nil.
updatedNode(s, oldPtr, newPtr) ==
    LET n == NodeOfRef(s.nodeCache, oldPtr)
    IN IF n = "" \/ BlockID(oldPtr) = BlockID(newPtr) THEN "" ELSE n

\* The commit of a sync whose top block is one the folder knows already:
\* ReadyBlock hands back its id under a fresh reference nonce.
commitSyncKnownBlock(s) ==
    LET file == s.sync.file
        pp == parentPath(file)
        newTop == tailPointer(file) + RefBase
        newDir == s.nextPtr
        de == [s.sync.dirtyDe EXCEPT !.ptr = newTop, !.encSize = 1]
        dir == [s.sync.dirBlock EXCEPT !.children = Put(@, tailName(file), de)]
    IN [s |-> [s EXCEPT !.nextPtr = @ + 1,
                        !.bcache = Put(Put(@, newTop, s.sync.fblock), newDir, dir)],
        updates |-> <<[unref |-> tailPointer(pp), ref |-> newDir],
                      [unref |-> tailPointer(file), ref |-> newTop]>>,
        newPath |-> <<[ptr |-> newDir, name |-> pp[1].name],
                      [ptr |-> newTop, name |-> tailName(file)]>>]

\* The blocks and the metadata were put, and UpdatePointers takes the
\* block lock.  The top block is a known one when the sync left it as it
\* is stored.
UpdateLocks ==
    /\ sync.phase = "started"
    /\ \E known \in BOOLEAN :
          /\ known => /\ ~sync.hasFblock
                      /\ sync.fblock = bcache[tailPointer(sync.file)]
          /\ LET c == IF known THEN commitSyncKnownBlock(Fbo) ELSE commitSync(Fbo)
             IN Install([c.s EXCEPT
                           !.sync.phase = "updating",
                           !.sync.update = [updates |-> c.updates,
                                            newPath |-> c.newPath,
                                            affected |-> <<>>]])
    /\ UNCHANGED <<pc, undo, client, sizeSum, search, fetch, lbc, cleanup, hist>>

\* One turn of the loop of UpdatePointers.
UpdateStep ==
    /\ sync.phase = "updating"
    /\ sync.update.updates # <<>>
    /\ LET u == Head(sync.update.updates)
           n == updatedNode(Fbo, u.unref, u.ref)
       IN Install([updatePointer(Fbo, u.unref, u.ref) EXCEPT
                     !.sync.update.updates = Tail(@),
                     !.sync.update.affected = IF n = "" THEN @ ELSE Append(@, n)])
    /\ UNCHANGED <<pc, undo, client, sizeSum, search, fetch, lbc, cleanup, hist>>

\* afterUpdateFn, which is FinishSyncLocked, and the return of
\* UpdatePointers.
UpdateAfter ==
    /\ sync.phase = "updating"
    /\ sync.update.updates = <<>>
    /\ LET r == FinishSyncLocked(clearAllDirtyDirsLocked(Fbo), sync.file,
                                 sync.update.newPath)
       IN /\ Install([r.s EXCEPT !.sync.phase = "finished"])
          /\ hist' = [hist EXCEPT
                        !.pending = hist.during, !.during = {},
                        !.outcome = "success",
                        !.stillDirty = r.stillDirty,
                        !.mdAtStart = newSyncOp, !.attempt = NoRefs,
                        !.retry = NoChain, !.chain = NoChain,
                        !.returned = sync.update.affected]
    /\ UNCHANGED <<pc, undo, client, sizeSum, search, fetch, lbc, cleanup>>

\* Lookup of the file in the root directory, under the read lock: the
\* entry is read from the block the node of the directory leads to, and
\* the node cache hands back the node of the pointer of the entry, a new
\* one when it has none.
Lookup ==
    /\ ~BlockLockHeld
    /\ LET dirPath == PathFromNode(nodeCache, "root")
           e == getEntryLocked(Fbo, ChildPath(dirPath, "f", 0), FALSE)
           n == NodeOfRef(nodeCache, e.de.ptr)
       IN /\ e.found
          /\ Install(IF n # "" THEN Fbo
                     ELSE [Fbo EXCEPT !.nodeCache =
                             Put(@, "g", MakeNode(e.de.ptr, "root", "f"))])
          /\ hist' = [hist EXCEPT
                        !.seen.looked = TRUE,
                        !.seen.node = IF n # "" THEN n ELSE "g",
                        !.seen.entryPtr = e.de.ptr,
                        !.seen.nodePtr = nodeCache["f"].ptr]
    /\ UNCHANGED <<pc, undo, client, sizeSum, search, fetch, lbc, cleanup>>

\* IsDirty of the file, under the read lock, on the path its node has.
IsDirtyAsked ==
    /\ ~BlockLockHeld
    /\ hist' = [hist EXCEPT
                  !.seen.asked = TRUE,
                  !.seen.dirty = IsDirty(Fbo, FilePath),
                  !.seen.queued = deferred # EmptyMap]
    /\ UNCHANGED <<bcache, dirtyBcache, dirtyFiles, unrefCache, deferred,
                   doDeferWrite, dirtyDirs, dirtyRootDirEntry, nodeCache,
                   errListener, shouldForceSync, forceSyncChan, nextPtr, clock,
                   sync, pc, undo, client, sizeSum, search, fetch, lbc, cleanup>>

NextPtr ==
    \/ Register
    \/ WriteLocked
    \/ StartSyncWrite
    \/ StartSyncReturn
    \/ UpdateLocks
    \/ UpdateStep
    \/ UpdateAfter
    \/ SyncCleanup
    \/ Lookup
    \/ IsDirtyAsked

SpecPtr == Init /\ [][NextPtr]_vars

\* --------------------------------------- calls that fail on their input
\* getFileLocked with getFileBlockHelperLocked: the path is checked, then
\* the type of the block its tail pointer leads to.  A valid path has a
\* valid tail pointer.
getFileLocked(s, file) ==
    IF ~isValid(file) THEN "invalidPath"
    ELSE IF getBlock(s, tailPointer(file)).kind # "file" THEN "notFileBlock"
    ELSE "nil"

writeGetFileLocked(s, file, isWriter) ==
    IF ~isWriter THEN "writeAccess" ELSE getFileLocked(s, file)

\* The nodes a failing call is made on: the file, the root directory and a
\* node the cache does not know.
FailNodes == {"f", "root", "gone"}

\* A whole Write or Truncate that returns an error of its input, with
\* nothing running in between: the wait registers its listener unless the
\* path is invalid, is admitted at once, and writeGetFileLocked fails
\* under the block lock.
WriteFails ==
    /\ pc = "idle"
    /\ \E node \in FailNodes, isWriter \in BOOLEAN, op \in {"write", "truncate"} :
          LET file == PathFromNode(nodeCache, node)
              s1 == IF isValid(file) THEN abandonListener(registerErr(Fbo, file))
                    ELSE Fbo
              err == IF isValid(file) THEN writeGetFileLocked(s1, file, isWriter)
                     ELSE "invalidPath"
          IN /\ err # "nil"
             /\ Install([s1 EXCEPT !.doDeferWrite = FALSE])
             /\ hist' = [hist EXCEPT
                           !.failed = [err |-> err, op |-> op, node |-> node,
                                       flip |-> ~hist.failed.flip]]
    /\ UNCHANGED <<pc, undo, client, sizeSum, search, fetch, lbc, cleanup>>

syncInfoAfterDirtyFile(s, file) ==
    [ok |-> tailPointer(file) \in DOMAIN s.unrefCache,
     s |-> getOrCreateDirtyFileLocked(s, file)]

\* The lookup of the SyncInfo of the file by startSyncWrite.
syncInfoOfFile(s, file) ==
    [ok |-> tailPointer(file) \in DOMAIN s.unrefCache, s |-> s]

\* startSyncWrite up to the lookup of the SyncInfo: the error it returns
\* there, "nil" when it goes on, and the folder at that point.
startSyncWriteErr(s, file) ==
    LET err == getFileLocked(s, file)
        si == syncInfoOfFile(s, file)
    IN IF err # "nil" THEN [err |-> err, s |-> s]
       ELSE IF ~si.ok THEN [err |-> "noSyncOp", s |-> si.s]
       ELSE [err |-> "nil", s |-> si.s]

\* A StartSync that returns the error of getFileLocked, or the error of a
\* file without SyncInfo.
StartSyncFails ==
    /\ sync.phase = "idle"
    /\ \E node \in FailNodes :
          LET file == PathFromNode(nodeCache, node)
              r == startSyncWriteErr(Fbo, file)
              err == r.err
          IN /\ err # "nil"
             /\ Install(r.s)
             /\ hist' = [hist EXCEPT
                           !.failed = [err |-> err, op |-> "sync", node |-> node,
                                       flip |-> ~hist.failed.flip]]
    /\ UNCHANGED <<pc, undo, client, sizeSum, search, fetch, lbc, cleanup>>

NextFail ==
    \/ WriteWhole
    \/ WriteFails
    \/ StartSyncFails

SpecFail == Init /\ [][NextFail]_vars

\* ------------------------------------- Write and Truncate step by step
\* The calls of one client with the wait for admission spelled out: the
\* request, the registration of the listener, the select loop of
\* maybeWaitOnDeferredWrites and the part under the block lock.
MaxCalls == 2

\* Sizes that shrink the file, extend it by a write of zeros (or keep it,
\* the second time) and extend it by a hole (beyond the cutoff from any
\* length the file takes).
WaitSizes == {0, 3, truncateExtendCutoffPoint + 4}

Nodes == {"f", "gone"}

\* DirtyBlockCache.UpdateUnsyncedBytes, kept with the call that made it.
UpdateUnsyncedBytes(c, newUnsyncedBytes) ==
    [c EXCEPT !.updates = Append(@, newUnsyncedBytes)]

\* What is left of a call that returned err: its arguments are gone.
Returned(c, err) ==
    [NoCall EXCEPT !.n = c.n, !.seq = c.seq, !.locked = c.locked,
                   !.updates = c.updates, !.ret = err]

returnWithoutUpdate(c, err) == Returned(c, err)

\* A return of Write or Truncate after the request was accepted: the
\* deferred UpdateUnsyncedBytes runs with the negated byte count.
returnFrom(c, err) == UpdateUnsyncedBytes(Returned(c, err), -c.n)

\* Write and Truncate up to the answer of RequestPermissionToDirty: a
\* refused request is returned at once.
RequestPermission ==
    /\ pc = "idle"
    /\ client.seq < MaxCalls
    /\ \E node \in Nodes, op \in {"write", "truncate"}, off \in Offsets,
          len \in Lengths, size \in WaitSizes, granted \in BOOLEAN :
          /\ op = "write" => size = 0 /\ off = 0
          /\ op = "truncate" => off = 0 /\ len = 0
          /\ client' =
                IF granted
                THEN [NoCall EXCEPT
                        !.op = op, !.node = node, !.off = off,
                        !.data = Payload(len, hist.nWrites + 1),
                        !.size = size,
                        !.n = IF op = "write" THEN len ELSE size,
                        !.seq = client.seq + 1]
                ELSE [NoCall EXCEPT
                        !.seq = client.seq + 1,
                        !.n = IF op = "write" THEN len ELSE size,
                        !.ret = "requestErr"]
          /\ pc' = IF granted THEN "requested" ELSE "idle"
    /\ UNCHANGED <<bcache, dirtyBcache, dirtyFiles, unrefCache, deferred,
                   doDeferWrite, dirtyDirs, dirtyRootDirEntry, nodeCache,
                   errListener, shouldForceSync, forceSyncChan, nextPtr, clock,
                   sync, undo, sizeSum, search, fetch, lbc, cleanup, hist>>

\* The dirty block cache makes the admission channel of the call ready.
AdmissionGranted ==
    /\ pc \in {"requested", "waiting"}
    /\ ~client.c
    /\ client' = [client EXCEPT !.c = TRUE]
    /\ UNCHANGED <<bcache, dirtyBcache, dirtyFiles, unrefCache, deferred,
                   doDeferWrite, dirtyDirs, dirtyRootDirEntry, nodeCache,
                   errListener, shouldForceSync, forceSyncChan, nextPtr, clock,
                   sync, pc, undo, sizeSum, search, fetch, lbc, cleanup, hist>>

\* The first registerErr of maybeWaitOnDeferredWrites: a node without a
\* valid path ends the call.
WaitRegisters ==
    /\ pc = "requested"
    /\ IF isValid(PathFromNode(nodeCache, client.node))
       THEN /\ Install(registerErr(Fbo, PathFromNode(nodeCache, client.node)))
            /\ pc' = "waiting"
            /\ UNCHANGED client
       ELSE /\ Install(Fbo)
            /\ pc' = "idle"
            /\ client' = returnFrom(client, "invalidPath")
    /\ UNCHANGED <<undo, sizeSum, search, fetch, lbc, cleanup, hist>>

\* case <-c: an error queued on the listener is read, and the wait
\* returns nil.
WaitAdmitted ==
    /\ pc = "waiting"
    /\ client.c
    /\ Install(abandonListener(Fbo))
    /\ client' = [client EXCEPT
                    !.c = FALSE,
                    !.err = IF errListener # <<>> THEN Head(errListener)
                            ELSE "nil"]
    /\ pc' = "admitted"
    /\ UNCHANGED <<undo, sizeSum, search, fetch, lbc, cleanup, hist>>

\* case err = <-errListener: after a context error a fresh listener is
\* registered and the loop goes on, any other error is returned.
WaitListenerError ==
    /\ pc = "waiting"
    /\ errListener # <<>>
    /\ IF Head(errListener) \in ContextErrors
       THEN /\ Install(registerErr(Fbo, PathFromNode(nodeCache, client.node)))
            /\ client' = [client EXCEPT !.err = Head(errListener)]
            /\ pc' = "waiting"
       ELSE /\ Install(abandonListener(Fbo))
            /\ client' = returnFrom([client EXCEPT !.err = Head(errListener)],
                                    Head(errListener))
            /\ pc' = "idle"
    /\ UNCHANGED <<undo, sizeSum, search, fetch, lbc, cleanup, hist>>

\* case <-ctx.Done(): the context of the call itself is over.
WaitCtxDone ==
    /\ pc = "waiting"
    /\ Install(abandonListener(Fbo))
    /\ client' = returnFrom(client, "ctxErr")
    /\ pc' = "idle"
    /\ UNCHANGED <<undo, sizeSum, search, fetch, lbc, cleanup, hist>>

\* What the part under the block lock can meet: the user may be no writer
\* (writeGetFileLocked fails before anything is touched), or the file
\* data fails once the dirty file and the sync info are there.
LockedOutcomes == {"nil", "writeAccess", "writeErr"}

failedWrite(s, file) ==
    maybeForceSync(
       getOrCreateSyncInfoLocked(getOrCreateDirtyFileLocked(s, file),
                                 getEntryLocked(s, file, TRUE).de))

\* Write and Truncate from the block lock to the return.
LockedPhase ==
    /\ pc = "admitted"
    /\ ~BlockLockHeld
    /\ \E out \in LockedOutcomes :
          LET id == hist.nWrites + 1
              file == PathFromNode(nodeCache, client.node)
              isWrite == client.op = "write"
          IN /\ out = "writeErr" => isWrite
             /\ Install(
                   IF out = "writeAccess" THEN Fbo
                   ELSE IF out = "writeErr" THEN failedWrite(Fbo, file)
                   ELSE IF isWrite
                   THEN Write(Fbo, client.node, client.data, client.off, id)
                   ELSE Truncate(Fbo, client.node, client.size, id))
             /\ client' = returnFrom([client EXCEPT !.locked = TRUE], out)
             /\ hist' = IF out # "nil" THEN hist
                        ELSE [hist EXCEPT !.nWrites = id, !.quiet = FALSE,
                                          !.chain = NoChain]
    /\ pc' = "idle"
    /\ UNCHANGED <<undo, sizeSum, search, fetch, lbc, cleanup>>

\* The dirty block cache may ask for a sync, and the channel to the sync
\* driver may be full.
InitWait ==
    /\ InitCommon
    /\ shouldForceSync \in BOOLEAN
    /\ forceSyncChan \in {"room", "full"}
    /\ sizeSum = NoSizeSum
    /\ bcache = DirectInit.bcache
    /\ nextPtr = DirectInit.nextPtr
    /\ nodeCache = ("root" :> MakeNode(RootPtr, "", "root"))
                   @@ ("f" :> MakeNode(2, "root", "f"))

NextWait ==
    \/ RequestPermission
    \/ AdmissionGranted
    \/ WaitRegisters
    \/ WaitAdmitted
    \/ WaitListenerError
    \/ WaitCtxDone
    \/ LockedPhase
    \/ StartSyncWrite
    \/ StartSyncReturn
    \/ SyncSucceeds
    \/ SyncCleanup
    \/ SyncFails

SpecWait == InitWait /\ [][NextWait]_vars

\* The wait with a dirty block cache that asks for no forced sync.
InitWaitFair == InitWait /\ QuietCache

\* The goroutine of the waiting call is scheduled: its select takes a
\* ready case, and each case that stays ready in the long run.
SpecWaitFair ==
    /\ InitWaitFair /\ [][NextWait]_vars
    /\ WF_vars(WaitAdmitted)
    /\ WF_vars(WaitListenerError)

\* ----------------------------------------- the file data step that fails
\* fileData.write and fileData.truncateShrink return an error together
\* with the unrefs and the newly dirtied bytes of the blocks they had
\* dirtied by then.
DataErrUnrefs == {<<>>, <<21>>}

DataErrBytes == {0, 2}

\* writeDataLocked when fd.write fails: the unrefs are recorded before the
\* error is looked at, and the deferred function adds the bytes and may
\* force a sync.
writeDataFails(s, file, unrefs, bytes) ==
    LET tail == tailPointer(file)
        s1 == getOrCreateDirtyFileLocked(s, file)
        de == getEntryLocked(s1, file, TRUE).de
        s2 == getOrCreateSyncInfoLocked(s1, de)
        s3 == [s2 EXCEPT !.unrefCache[de.ptr].unrefs = @ \o unrefs]
    IN maybeForceSync(
          [s3 EXCEPT !.dirtyFiles[tail] = updateNotYetSyncingBytes(@, bytes)])

\* truncateLocked when fd.truncateShrink fails: the unrefs are recorded
\* before the error is looked at, and the return comes before the
\* DirtyFile is asked for.
truncateShrinkFails(s, file, unrefs, bytes) ==
    LET de == getEntryLocked(s, file, TRUE).de
        s2 == getOrCreateSyncInfoLocked(s, de)
    IN [s2 EXCEPT !.unrefCache[de.ptr].unrefs = @ \o unrefs]

\* A whole Write, or a whole Truncate to a smaller size, whose file data
\* step fails, with nothing running in between.
FileDataFails ==
    /\ pc = "idle"
    /\ ~BlockLockHeld
    /\ hist.dataErr.n < MaxCalls
    /\ \E path \in {"write", "shrink"}, unrefs \in DataErrUnrefs,
          bytes \in DataErrBytes :
          LET s1 == abandonListener(registerErr(Fbo, FilePath))
              s2 == IF path = "write"
                    THEN writeDataFails(s1, FilePath, unrefs, bytes)
                    ELSE truncateShrinkFails(s1, FilePath, unrefs, bytes)
          IN /\ path = "shrink" => FileSize > 0
             /\ Install([s2 EXCEPT !.doDeferWrite = FALSE])
             /\ hist' = [hist EXCEPT
                           !.dataErr = [n |-> @.n + 1, path |-> path,
                                        unrefs |-> unrefs, bytes |-> bytes]]
    /\ UNCHANGED <<pc, undo, client, sizeSum, search, fetch, lbc, cleanup>>

NextDataErr ==
    \/ WriteWhole
    \/ FileDataFails

SpecDataErr == Init /\ [][NextDataErr]_vars

\* ------------------------------------------ the sum of encoded sizes
\* GetCleanEncodedBlocksSizeSum with its group of workers.  The pointers
\* stand for what the fetch of their size meets: a block of the block
\* cache, a block of the server, a block the server has deleted (an error
\* that is recoverable for removal) and a block the server fails on.
MaxPtrs == 3

numBlockSizeWorkersMax == 50

Pointers == {"cached", "stored", "gone", "broken"}

EncodedSize == [p \in Pointers |-> IF p = "cached" THEN 1
                                   ELSE IF p = "stored" THEN 2 ELSE 0]

isRecoverableBlockErrorForRemoval(err) == err = "recoverableForRemoval"

\* What getCleanEncodedBlockSizeLocked can return for ptr: the block cache
\* answers at once, the server answers with the size or its error, or
\* with the context error once the context of the group is cancelled.
getCleanEncodedBlockSizeLocked(ptr, cancelled) ==
    IF ptr = "cached" THEN {[size |-> EncodedSize[ptr], err |-> "nil"]}
    ELSE {[size |-> IF ptr = "stored" THEN EncodedSize[ptr] ELSE 0,
           err |-> IF ptr = "stored" THEN "nil"
                   ELSE IF ptr = "gone" THEN "recoverableForRemoval"
                   ELSE "other"]}
         \cup (IF cancelled THEN {[size |-> 0, err |-> "canceled"]} ELSE {})

numWorkers(n) ==
    IF n < numBlockSizeWorkersMax THEN n ELSE numBlockSizeWorkersMax

ignoredAnyway(err, ptr, ignore) == isRecoverableBlockErrorForRemoval(err)

\* The error of ptr is skipped by the worker.
ignored(err, ptr, ignore) ==
    isRecoverableBlockErrorForRemoval(err) /\ ptr \in ignore

RECURSIVE SumOf(_)
SumOf(sizes) == IF sizes = <<>> THEN 0 ELSE Head(sizes) + SumOf(Tail(sizes))

Idle == [st |-> "idle", ptr |-> ""]

Done == [st |-> "done", ptr |-> ""]

\* The call up to the start of its workers: every pointer is in ptrCh.
InitSum ==
    /\ InitCommon
    /\ shouldForceSync = FALSE
    /\ forceSyncChan = "room"
    /\ bcache = DirectInit.bcache
    /\ nextPtr = DirectInit.nextPtr
    /\ nodeCache = ("root" :> MakeNode(RootPtr, "", "root"))
                   @@ ("f" :> MakeNode(2, "root", "f"))
    /\ \E n \in 0..MaxPtrs :
       \E ptrs \in [1..n -> Pointers], ignore \in SUBSET {"stored", "gone"} :
          sizeSum = [NoSizeSum EXCEPT
                       !.ptrs = ptrs, !.ignore = ignore, !.ptrCh = ptrs,
                       !.workers = [i \in 1..numWorkers(n) |-> Idle]]

SumStep(next) ==
    /\ sizeSum' = next
    /\ UNCHANGED <<bcache, dirtyBcache, dirtyFiles, unrefCache, deferred,
                   doDeferWrite, dirtyDirs, dirtyRootDirEntry, nodeCache,
                   errListener, shouldForceSync, forceSyncChan, nextPtr, clock,
                   sync, pc, undo, client, search, fetch, lbc, cleanup, hist>>

\* for ptr := range ptrCh: a worker takes the next pointer.
WorkerReceives ==
    \E i \in DOMAIN sizeSum.workers :
       /\ sizeSum.workers[i].st = "idle"
       /\ sizeSum.ptrCh # <<>>
       /\ SumStep([sizeSum EXCEPT
                     !.ptrCh = Tail(@),
                     !.workers[i] = [st |-> "fetching", ptr |-> Head(sizeSum.ptrCh)]])

\* The fetch of the worker returns: an ignored error is skipped, another
\* error ends the worker (the first one cancels the group), a size is sent.
WorkerFetched ==
    \E i \in DOMAIN sizeSum.workers :
       /\ sizeSum.workers[i].st = "fetching"
       /\ \E r \in getCleanEncodedBlockSizeLocked(sizeSum.workers[i].ptr,
                                                  sizeSum.groupErr # "nil") :
             SumStep(IF ignored(r.err, sizeSum.workers[i].ptr, sizeSum.ignore)
                     THEN [sizeSum EXCEPT !.workers[i] = Idle]
                     ELSE IF r.err # "nil"
                     THEN [sizeSum EXCEPT
                             !.workers[i] = Done,
                             !.groupErr = IF @ = "nil" THEN r.err ELSE @]
                     ELSE [sizeSum EXCEPT
                             !.workers[i] = Idle,
                             !.sumCh = Append(@, r.size)])

\* The range over the closed and empty ptrCh ends: the worker returns nil.
WorkerExits ==
    \E i \in DOMAIN sizeSum.workers :
       /\ sizeSum.workers[i].st = "idle"
       /\ sizeSum.ptrCh = <<>>
       /\ sizeSum.closed
       /\ SumStep([sizeSum EXCEPT !.workers[i] = Done])

ClosePtrCh ==
    /\ ~sizeSum.closed
    /\ SumStep([sizeSum EXCEPT !.closed = TRUE])

\* eg.Wait returns once every worker has: the first error of the group,
\* or the sum of what sumCh holds.
SizeSumReturns ==
    /\ sizeSum.closed
    /\ sizeSum.ret = <<>>
    /\ \A i \in DOMAIN sizeSum.workers : sizeSum.workers[i].st = "done"
    /\ SumStep([sizeSum EXCEPT
                  !.ret = IF sizeSum.groupErr # "nil"
                          THEN <<0, sizeSum.groupErr>>
                          ELSE <<SumOf(sizeSum.sumCh), "nil">>])

NextSum ==
    \/ WorkerReceives
    \/ WorkerFetched
    \/ WorkerExits
    \/ ClosePtrCh
    \/ SizeSumReturns

\* Every goroutine that can run does, and every fetch returns.
SpecSum == InitSum /\ [][NextSum]_vars /\ WF_vars(NextSum)

\* ------------------------------------------- the directory-entry cache
\* An undo closure is kept as the list of the steps it runs, each with the
\* values it captured.
UndoStep(op, dir, name, de) == [op |-> op, dir |-> dir, name |-> name, de |-> de]

NoDirtyUndo == [ptr |-> 0, wasDirty |-> FALSE, oldUnrefs |-> <<>>, unrefs |-> <<>>]

DirtyUndoStep(u) ==
    [op |-> "undoDirty", dir |-> <<>>, name |-> "", de |-> EmptyDirEntry, u |-> u]

NodeUndoStep(op, n, node) ==
    [op |-> op, dir |-> <<>>, name |-> "", de |-> EmptyDirEntry, n |-> n,
     node |-> node]

RootUndoStep(old) ==
    [op |-> "setRoot", dir |-> <<>>, name |-> "", de |-> EmptyDirEntry, old |-> old]

\* nodeCache.Unlink: the node of the ref is marked unlinked and keeps its
\* last path and entry; nothing happens for the zero ref, for a ref without
\* a node and for a node that is unlinked already.
nodeCacheUnlink(s, ref, oldPath, oldDe) ==
    LET n == NodeOfRef(s.nodeCache, ref)
    IN IF n = "" \/ s.nodeCache[n].unlinked
       THEN [s |-> s, undo |-> <<>>]
       ELSE [s |-> [s EXCEPT !.nodeCache[n].unlinked = TRUE,
                             !.nodeCache[n].cachedPath = oldPath,
                             !.nodeCache[n].de = oldDe],
             undo |-> <<NodeUndoStep("restoreNode", n, s.nodeCache[n])>>]

\* nodeCache.Move: the node of the ref gets a new parent and name.
nodeCacheMove(s, ref, newParentNode, newName) ==
    LET n == NodeOfRef(s.nodeCache, ref)
    IN IF n = "" \/ newParentNode = ""
       THEN [s |-> s, undo |-> <<>>]
       ELSE [s |-> [s EXCEPT !.nodeCache[n].parent = newParentNode,
                             !.nodeCache[n].name = newName],
             undo |-> <<NodeUndoStep("restoreNode", n, s.nodeCache[n])>>]

\* One step of an undo closure.  The directory steps ignore the error of
\* the directory data, which then has changed nothing.
runUndoStep(s, u) ==
    IF u.op = "removeEntry"
    THEN IF dirLookupFound(s, u.dir, u.name)
         THEN dirRemoveEntry(s, u.dir, u.name) ELSE s
    ELSE IF u.op = "addEntry"
    THEN IF dirLookupFound(s, u.dir, u.name)
         THEN s ELSE dirSetEntry(s, u.dir, u.name, u.de)
    ELSE IF u.op = "updateEntry"
    THEN IF dirLookupFound(s, u.dir, u.name)
         THEN dirSetEntry(s, u.dir, u.name, u.de) ELSE s
    ELSE IF u.op = "undoDirty" THEN runMakeDirDirtyUndo(s, u.u)
    ELSE IF u.op = "setRoot" THEN [s EXCEPT !.dirtyRootDirEntry = u.old]
    ELSE IF u.op = "restoreNode" THEN [s EXCEPT !.nodeCache[u.n] = u.node]
    ELSE IF u.op = "setUnlinkedDe" THEN [s EXCEPT !.nodeCache[u.n].de = u.de]
    ELSE s

RECURSIVE runUndo(_, _)
runUndo(s, steps) ==
    IF steps = <<>> THEN s
    ELSE runUndo(runUndoStep(s, IF "part" \in DOMAIN Head(steps)
                                THEN Head(steps).step ELSE Head(steps)),
                 Tail(steps))

updateParentDirEntryLocked(s, dir, setMtime, setCtime) ==
    LET now == s.clock + 1
        s0 == [s EXCEPT !.clock = now]
        pp == parentPath(dir)
        stamp(de) == [de EXCEPT !.mtime = IF setMtime THEN now ELSE @,
                                !.ctime = IF setCtime THEN now ELSE @]
    IN IF isValid(pp)
       THEN LET de == dirLookup(s0, pp, tailName(dir))
                s1 == dirSetEntry(s0, pp, tailName(dir), stamp(de))
            IN [s |-> makeDirDirtyLocked(s1, tailPointer(pp), <<>>),
                undo |-> <<UndoStep("updateEntry", pp, tailName(dir), de),
                           DirtyUndoStep(makeDirDirtyUndo(s1, tailPointer(pp), <<>>))>>]
       ELSE [s |-> [s0 EXCEPT !.dirtyRootDirEntry =
                       <<stamp(IF @ = <<>> THEN GetRootDirEntry(s0) ELSE @[1])>>],
             undo |-> <<RootUndoStep(s.dirtyRootDirEntry)>>]

addDirEntryInCacheLocked(s, dir, newName, newDe) ==
    LET s1 == dirSetEntry(s, dir, newName, newDe)
        p == updateParentDirEntryLocked(s1, dir, TRUE, TRUE)
    IN [s |-> makeDirDirtyLocked(p.s, tailPointer(dir), <<>>),
        undo |-> <<UndoStep("removeEntry", dir, newName, EmptyDirEntry),
                   DirtyUndoStep(makeDirDirtyUndo(p.s, tailPointer(dir), <<>>))>>
                 \o p.undo]

removeDirEntryInCacheLocked(s, dir, oldName, oldDe) ==
    LET s1 == dirRemoveEntry(s, dir, oldName)
        unrefs == IF oldDe.type = "Dir" /\ oldDe.ptr \in DOMAIN s1.dirtyDirs
                  THEN s1.dirtyDirs[oldDe.ptr] ELSE <<>>
        k == nodeCacheUnlink(s1, oldDe.ptr,
                             ChildPath(dir, oldName, oldDe.ptr), oldDe)
        p == updateParentDirEntryLocked(k.s, dir, TRUE, TRUE)
    IN [s |-> makeDirDirtyLocked(p.s, tailPointer(dir), unrefs),
        undo |-> <<UndoStep("addEntry", dir, oldName, oldDe),
                   DirtyUndoStep(makeDirDirtyUndo(p.s, tailPointer(dir), unrefs))>>
                 \o p.undo \o k.undo]

\* The steps of one of the closures a composite undo runs.
Part(steps, part) == [i \in DOMAIN steps |-> [step |-> steps[i], part |-> part]]

\* A rename that is detected as a no-op by no check.
neverNoopRename(oldParent, oldName, newParent, newName) == FALSE

\* The check at the head of RenameDirEntryInCache.
isNoopRename(oldParent, oldName, newParent, newName) ==
    tailPointer(newParent) = tailPointer(oldParent) /\ oldName = newName

RenameDirEntryInCache(s, oldParent, oldName, newParent, newName, newDe, replacedDe) ==
    IF isNoopRename(oldParent, oldName, newParent, newName)
    THEN [s |-> s, undo |-> NilUndo]
    ELSE LET r == IF IsInitialized(replacedDe)
                  THEN removeDirEntryInCacheLocked(s, newParent, newName, replacedDe)
                  ELSE [s |-> s, undo |-> <<>>]
             a == addDirEntryInCacheLocked(r.s, newParent, newName, newDe)
             m == removeDirEntryInCacheLocked(a.s, oldParent, oldName, EmptyDirEntry)
             v == nodeCacheMove(m.s, newDe.ptr,
                                NodeOfRef(m.s.nodeCache, tailPointer(newParent)),
                                newName)
         IN [s |-> v.s,
             undo |-> wrapWithBlockLock(
                         Part(v.undo, "undoMove") \o Part(m.undo, "undoRm")
                           \o Part(a.undo, "undoAdd") \o Part(r.undo, "undoReplace"))]

\* setCachedAttrLocked for a directory that is a valid path; found is false
\* when the name is neither in the directory nor that of an unlinked node.
setCachedAttrLocked(s, dir, name, attr, realEntry) ==
    LET inDir == dirLookupFound(s, dir, name)
        n == NodeOfRef(s.nodeCache, realEntry.ptr)
        unlinked == ~inDir /\ n # "" /\ s.nodeCache[n].unlinked
        oldDe == IF inDir THEN dirLookup(s, dir, name)
                 ELSE IF unlinked THEN s.nodeCache[n].de ELSE EmptyDirEntry
        de == [oldDe EXCEPT
                 !.type = IF attr = "exAttr" THEN realEntry.type ELSE @,
                 !.mtime = IF attr = "mtimeAttr" THEN realEntry.mtime ELSE @,
                 !.ctime = realEntry.ctime]
    IN IF ~isValid(dir) \/ (~inDir /\ ~unlinked)
       THEN [s |-> s, undo |-> NilUndo, err |-> TRUE]
       ELSE IF unlinked
       THEN [s |-> [s EXCEPT !.nodeCache[n].de = de],
             undo |-> wrapWithBlockLock(
                         <<[NodeUndoStep("setUnlinkedDe", n, s.nodeCache[n])
                              EXCEPT !.de = oldDe]>>),
             err |-> FALSE]
       ELSE LET s1 == dirSetEntry(s, dir, name, de)
            IN [s |-> makeDirDirtyLocked(s1, tailPointer(dir), <<>>),
                undo |-> wrapWithBlockLock(
                            <<UndoStep("updateEntry", dir, name, oldDe),
                              DirtyUndoStep(makeDirDirtyUndo(s1, tailPointer(dir), <<>>))>>),
                err |-> FALSE]

GetEntry(s, file) == getEntryLocked(s, file, FALSE)

GetState(s) ==
    IF DOMAIN s.dirtyFiles = {} /\ DOMAIN s.dirtyDirs = {}
       /\ s.dirtyRootDirEntry = <<>>
    THEN "cleanState" ELSE "dirtyState"

\* ------------------------------------------ the directory-cache engine
\* The root directory holds the directory d and the file a; d holds the
\* files a and b.  Every entry has a node.
DirInitBcache ==
    (RootPtr :> DirBlock(("d" :> MakeDirEntry(2, "Dir", 0, 1, 0, 0))
                         @@ ("a" :> MakeDirEntry(3, "File", 3, 1, 0, 0))))
    @@ (2 :> DirBlock(("a" :> MakeDirEntry(4, "File", 7, 1, 0, 0))
                      @@ ("b" :> MakeDirEntry(5, "File", 1, 1, 0, 0))))

Names == {"a", "b", "c"}

InitDir ==
    /\ InitCommon
    /\ QuietCache
    /\ bcache = DirInitBcache
    /\ nextPtr = 6
    /\ nodeCache = ("root" :> MakeNode(RootPtr, "", "root"))
                   @@ ("d" :> MakeNode(2, "root", "d"))
                   @@ ("n3" :> MakeNode(3, "root", "a"))
                   @@ ("n4" :> MakeNode(4, "d", "a"))
                   @@ ("n5" :> MakeNode(5, "d", "b"))

RootPath == <<[ptr |-> RootPtr, name |-> "root"]>>

Listing(s, dir) == getBlock(s, tailPointer(dir)).children

\* The directories that can be named by a path: the root and its
\* subdirectories.
Dirs ==
    {RootPath} \cup
    {ChildPath(RootPath, n, Listing(Fbo, RootPath)[n].ptr) :
        n \in {m \in DOMAIN Listing(Fbo, RootPath) :
                  Listing(Fbo, RootPath)[m].type = "Dir"}}

\* What the queries return, for the paths a mutation names.
Snapshot(s, op) ==
    [taken |-> TRUE,
     state |-> GetState(s),
     fileRefs |-> GetDirtyFileBlockRefs(s),
     dirRefs |-> GetDirtyDirBlockRefs(s),
     entry |-> GetEntry(s, ChildPath(op.dir, op.name, 0)),
     dirEntry |-> GetEntry(s, op.dir),
     newEntry |-> GetEntry(s, ChildPath(op.newDir, op.newName, 0)),
     oldListing |-> Listing(s, op.dir),
     newListing |-> Listing(s, op.newDir),
     nodes |-> s.nodeCache]

DirOp(kind, dir, name) ==
    [NoDirOp EXCEPT !.kind = kind, !.dir = dir, !.name = name,
                    !.newDir = dir, !.newName = name]

Mutated(r, op) ==
    /\ Install(r.s)
    /\ undo' = r.undo
    /\ hist' = [hist EXCEPT !.nDirOps = @ + 1, !.lastOp = op,
                            !.undone = FALSE, !.before = Snapshot(Fbo, op)]
    /\ UNCHANGED <<pc, client, sizeSum, search, fetch, lbc, cleanup>>

AddDirEntryInCache ==
    /\ undo.state = "none"
    /\ hist.nDirOps < MaxDirOps
    /\ \E dir \in Dirs, newName \in Names, type \in {"File", "Exec"} :
          /\ ~dirLookupFound(Fbo, dir, newName)
          /\ LET newDe == MakeDirEntry(nextPtr, type, 0, 0, clock, clock)
                 r == addDirEntryInCacheLocked(
                         [Fbo EXCEPT !.nextPtr = @ + 1], dir, newName, newDe)
             IN Mutated([s |-> r.s, undo |-> wrapWithBlockLock(r.undo)],
                        [DirOp("add", dir, newName) EXCEPT !.newDe = newDe])

RemoveDirEntryInCache ==
    /\ undo.state = "none"
    /\ hist.nDirOps < MaxDirOps
    /\ \E dir \in Dirs :
       \E oldName \in DOMAIN Listing(Fbo, dir) :
          LET r == removeDirEntryInCacheLocked(Fbo, dir, oldName,
                                               dirLookup(Fbo, dir, oldName))
          IN Mutated([s |-> r.s, undo |-> wrapWithBlockLock(r.undo)],
                     DirOp("remove", dir, oldName))

\* The entries SetAttr can name: those of the directories, and the last
\* paths of the unlinked nodes.
SetAttrTargets ==
    UNION {{[dir |-> dir, name |-> n, ptr |-> Listing(Fbo, dir)[n].ptr] :
               n \in DOMAIN Listing(Fbo, dir)} : dir \in Dirs}
    \cup {[dir |-> parentPath(nodeCache[n].cachedPath),
           name |-> tailName(nodeCache[n].cachedPath),
           ptr |-> nodeCache[n].ptr] :
             n \in {m \in DOMAIN nodeCache : nodeCache[m].unlinked}}

SetAttrInDirEntryInCache ==
    /\ undo.state = "none"
    /\ hist.nDirOps < MaxDirOps
    /\ \E p \in SetAttrTargets, attr \in {"exAttr", "mtimeAttr"} :
          LET realEntry == MakeDirEntry(p.ptr, "Exec", 0, 0, clock + 1, clock + 1)
              r == setCachedAttrLocked(Fbo, p.dir, p.name, attr, realEntry)
          IN /\ ~r.err
             /\ Mutated([s |-> r.s, undo |-> r.undo],
                        DirOp("setattr", p.dir, p.name))

RenameDirEntry ==
    /\ undo.state = "none"
    /\ hist.nDirOps < MaxDirOps
    /\ \E oldParent \in Dirs, newParent \in Dirs, newName \in Names :
       \E oldName \in DOMAIN Listing(Fbo, oldParent) :
       \E replacedDe \in {EmptyDirEntry} \cup
                         {Listing(Fbo, newParent)[n] :
                             n \in DOMAIN Listing(Fbo, newParent) \cap {newName}} :
          LET oldDe == dirLookup(Fbo, oldParent, oldName)
              same == /\ tailPointer(newParent) = tailPointer(oldParent)
                      /\ oldName = newName
              newDe == [oldDe EXCEPT !.ctime = clock + 1]
              r == RenameDirEntryInCache(Fbo, oldParent, oldName, newParent,
                                         newName, newDe, replacedDe)
          IN /\ oldDe.ptr # tailPointer(newParent)
             /\ replacedDe.ptr # tailPointer(oldParent)
             /\ same \/ (IsInitialized(replacedDe)
                            <=> dirLookupFound(Fbo, newParent, newName))
             /\ Mutated(r,
                        [DirOp("rename", oldParent, oldName) EXCEPT
                            !.noop = same, !.replaced = IsInitialized(replacedDe),
                            !.newDir = newParent, !.newName = newName,
                            !.newDe = newDe, !.replacedPtr = replacedDe.ptr])

\* The caller rolls the mutation back.
InvokeUndo ==
    /\ undo.state = "fn"
    /\ Install(runUndo(Fbo, undo.steps))
    /\ undo' = NoUndo
    /\ hist' = [hist EXCEPT !.undone = TRUE]
    /\ UNCHANGED <<pc, client, sizeSum, search, fetch, lbc, cleanup>>

\* The caller keeps the mutation and lets go of the undo.
DropUndo ==
    /\ undo.state \in {"fn", "nil"}
    /\ undo' = NoUndo
    /\ UNCHANGED <<dirtyBcache, bcache, dirtyFiles, unrefCache, deferred,
                   doDeferWrite, dirtyDirs, dirtyRootDirEntry, nodeCache,
                   errListener, shouldForceSync, forceSyncChan, nextPtr, clock,
                   sync, pc, client, sizeSum, search, fetch, lbc, cleanup, hist>>

NextDir ==
    \/ AddDirEntryInCache
    \/ RemoveDirEntryInCache
    \/ SetAttrInDirEntryInCache
    \/ RenameDirEntry
    \/ InvokeUndo
    \/ DropUndo

SpecDir == InitDir /\ [][NextDir]_vars

\* --------------------------------- directory operations that fail
\* Where a call on the directory-entry cache fails: before it changed
\* anything (getChargedToLocked, the directory data refusing the entry),
\* or in updateParentDirEntryLocked, when the entry was added or removed
\* already.  The second needs a parent whose block is looked up.
FailModes == {"early", "parent"}

canFailAt(dir, mode) == mode = "early" \/ isValid(parentPath(dir))

\* addDirEntryInCacheLocked returning an error.
addDirEntryFails(s, dir, newName, newDe, mode) ==
    IF mode = "early" THEN [s |-> s, applied |-> FALSE]
    ELSE LET s1 == dirSetEntry(s, dir, newName, newDe)
         IN [s |-> runUndoStep(s1, UndoStep("removeEntry", dir, newName,
                                            EmptyDirEntry)),
             applied |-> TRUE]

\* removeDirEntryInCacheLocked returning an error.
removeDirEntryFails(s, dir, oldName, oldDe, mode) ==
    IF mode = "early" THEN [s |-> s, applied |-> FALSE]
    ELSE LET s1 == dirRemoveEntry(s, dir, oldName)
             k == nodeCacheUnlink(s1, oldDe.ptr,
                                  ChildPath(dir, oldName, oldDe.ptr), oldDe)
             s2 == runUndo(k.s, k.undo)
         IN [s |-> runUndoStep(s2, UndoStep("addEntry", dir, oldName, oldDe)),
             applied |-> TRUE]

RenameSteps == {"replace", "add", "rm", "move"}

\* RenameDirEntryInCache returning an error from one of its three calls or
\* from nodeCache.Move: the deferred functions run the undos of the calls
\* that succeeded, the last one first.
renameDirEntryFails(s, oldParent, oldName, newParent, newName, newDe, replacedDe, at, mode) ==
    LET r == IF IsInitialized(replacedDe)
             THEN removeDirEntryInCacheLocked(s, newParent, newName, replacedDe)
             ELSE [s |-> s, undo |-> <<>>]
        a == addDirEntryInCacheLocked(r.s, newParent, newName, newDe)
        m == removeDirEntryInCacheLocked(a.s, oldParent, oldName, EmptyDirEntry)
    IN IF at = "replace"
       THEN removeDirEntryFails(s, newParent, newName, replacedDe, mode)
       ELSE IF at = "add"
       THEN LET f == addDirEntryFails(r.s, newParent, newName, newDe, mode)
            IN [s |-> runUndo(f.s, r.undo),
                applied |-> f.applied \/ IsInitialized(replacedDe)]
       ELSE IF at = "rm"
       THEN LET f == removeDirEntryFails(a.s, oldParent, oldName,
                                         EmptyDirEntry, mode)
            IN [s |-> runUndo(runUndo(f.s, a.undo), r.undo), applied |-> TRUE]
       ELSE [s |-> runUndo(runUndo(runUndo(m.s, m.undo), a.undo), r.undo),
             applied |-> TRUE]

Failed(r, op, at) ==
    Mutated([s |-> r.s, undo |-> NilUndo],
            [op EXCEPT !.failAt = at, !.applied = r.applied])

AddDirEntryFails ==
    /\ undo.state = "none"
    /\ hist.nDirOps < MaxDirOps
    /\ \E dir \in Dirs, newName \in Names, mode \in FailModes :
          /\ canFailAt(dir, mode)
          /\ mode = "parent" => ~dirLookupFound(Fbo, dir, newName)
          /\ LET newDe == MakeDirEntry(nextPtr, "File", 0, 0, clock, clock)
             IN Failed(addDirEntryFails([Fbo EXCEPT !.nextPtr = @ + 1], dir,
                                        newName, newDe, mode),
                       [DirOp("add", dir, newName) EXCEPT !.newDe = newDe],
                       mode)

RemoveDirEntryFails ==
    /\ undo.state = "none"
    /\ hist.nDirOps < MaxDirOps
    /\ \E dir \in Dirs, mode \in FailModes :
       \E oldName \in DOMAIN Listing(Fbo, dir) :
          /\ canFailAt(dir, mode)
          /\ Failed(removeDirEntryFails(Fbo, dir, oldName,
                                        dirLookup(Fbo, dir, oldName), mode),
                    DirOp("remove", dir, oldName), mode)

RenameDirEntryFails ==
    /\ undo.state = "none"
    /\ hist.nDirOps < MaxDirOps
    /\ \E oldParent \in Dirs, newParent \in Dirs, newName \in Names,
          at \in RenameSteps, mode \in FailModes :
       \E oldName \in DOMAIN Listing(Fbo, oldParent) :
       \E replacedDe \in {EmptyDirEntry} \cup
                         {Listing(Fbo, newParent)[n] :
                             n \in DOMAIN Listing(Fbo, newParent) \cap {newName}} :
          LET oldDe == dirLookup(Fbo, oldParent, oldName)
              newDe == [oldDe EXCEPT !.ctime = clock + 1]
          IN /\ ~isNoopRename(oldParent, oldName, newParent, newName)
             /\ oldDe.ptr # tailPointer(newParent)
             /\ replacedDe.ptr # tailPointer(oldParent)
             /\ IsInitialized(replacedDe)
                   <=> dirLookupFound(Fbo, newParent, newName)
             /\ at = "replace" => IsInitialized(replacedDe)
             /\ at = "move" => mode = "early"
             /\ canFailAt(IF at = "rm" THEN oldParent ELSE newParent, mode)
             /\ Failed(renameDirEntryFails(Fbo, oldParent, oldName, newParent,
                                           newName, newDe, replacedDe, at, mode),
                       [DirOp("rename", oldParent, oldName) EXCEPT
                           !.replaced = IsInitialized(replacedDe),
                           !.newDir = newParent, !.newName = newName,
                           !.newDe = newDe, !.replacedPtr = replacedDe.ptr],
                       at)

NextDirErr ==
    \/ AddDirEntryInCache
    \/ RemoveDirEntryInCache
    \/ SetAttrInDirEntryInCache
    \/ RenameDirEntry
    \/ InvokeUndo
    \/ DropUndo
    \/ AddDirEntryFails
    \/ RemoveDirEntryFails
    \/ RenameDirEntryFails

SpecDirErr == InitDir /\ [][NextDirErr]_vars

\* A call that returned an error after it had applied a step.
FailedAfterStep ==
    /\ hist'.nDirOps = hist.nDirOps + 1
    /\ hist'.lastOp.failAt # ""
    /\ hist'.lastOp.applied

LinkState ==
    [n \in DOMAIN nodeCache |->
        [unlinked |-> nodeCache[n].unlinked, parent |-> nodeCache[n].parent,
         name |-> nodeCache[n].name]]

EntriesRestored == \A dir \in Dirs : Listing(Fbo, dir)' = Listing(Fbo, dir)

DirtyStateRestored ==
    /\ dirtyDirs' = dirtyDirs
    /\ dirtyRootDirEntry' = dirtyRootDirEntry
    /\ LinkState' = LinkState

\* C40: a call of AddDirEntryInCache, RemoveDirEntryInCache or
\* RenameDirEntryInCache that returns an error after it applied a step
\* returns a nil undo and leaves the directory entries, dirtyDirs, the
\* root-entry shadow, the dirty block cache and the links of the node
\* cache as they were before the call.
C40_FailedCallRestoresAll ==
    [][FailedAfterStep =>
          /\ undo'.state = "nil"
          /\ EntriesRestored
          /\ DirtyStateRestored
          /\ dirtyBcache' = dirtyBcache]_vars

\* What the failed Add and Remove do restore: the entries as the
\* directory data shows them, dirtyDirs, the shadow and the links.
C40_FailedAddRemoveRestoresView ==
    [][FailedAfterStep /\ hist'.lastOp.kind # "rename" =>
          /\ undo'.state = "nil"
          /\ EntriesRestored
          /\ DirtyStateRestored]_vars

\* The block of a directory that was clean stays in the dirty block cache
\* after the failed call.
C40_DirtyBlockLeftBehind ==
    /\ hist.lastOp.failAt = "parent"
    /\ hist.lastOp.kind = "add"
    /\ hist.nDirOps = 1
    /\ tailPointer(hist.lastOp.dir) \in DOMAIN dirtyBcache
    /\ dirtyDirs = EmptyMap

\* ------------------------------------------------------- fast-forwarding
MaxFF == 2          \* remote revisions that reach the engine

\* path.String and the filepath.Join of the names: the names of the path.
PathNames(p) == [i \in DOMAIN p |-> p[i].name]

\* A remote revision of the tree of DirInitBcache.  It keeps ("same"),
\* replaces ("new") or drops ("gone") each entry, turns the directory d into
\* a file, or renames d/b over d/a ("moved": a is listed with the pointer b
\* had, b is gone).  A directory whose listing changes has a new pointer,
\* and every new pointer is fresh.
MdKinds == {"same", "new", "gone"}

DirOf(s, ptr) ==
    IF ptr \in DOMAIN s.bcache /\ s.bcache[ptr].kind = "dir"
    THEN s.bcache[ptr].children ELSE EmptyMap

\* The entry that the tree below ptr holds for the names; the zero entry
\* when a name is not listed or is listed below a file.
RECURSIVE MdEntryAt(_, _, _)
MdEntryAt(s, ptr, names) ==
    IF names = <<>> THEN MakeDirEntry(ptr, "Dir", 0, 1, 0, 0)
    ELSE IF Head(names) \notin DOMAIN DirOf(s, ptr) THEN EmptyDirEntry
    ELSE IF Len(names) = 1 THEN DirOf(s, ptr)[Head(names)]
    ELSE MdEntryAt(s, DirOf(s, ptr)[Head(names)].ptr, Tail(names))

\* The listing of the directory d in the tree below md.
OldD(s, md) ==
    IF "d" \in DOMAIN DirOf(s, md) /\ DirOf(s, md)["d"].type = "Dir"
    THEN DirOf(s, DirOf(s, md)["d"].ptr) ELSE EmptyMap

MdChoices(s, md) ==
    {c \in [d : MdKinds \cup {"file"}, a : MdKinds,
             da : MdKinds \cup {"moved"}, db : MdKinds] :
        /\ c.a = "same" => "a" \in DOMAIN DirOf(s, md)
        /\ c.d = "same" => /\ "d" \in DOMAIN DirOf(s, md)
                           /\ c.da = "same" /\ c.db = "same"
        /\ c.d \in {"file", "gone"} => c.da = "gone" /\ c.db = "gone"
        /\ c.d = "new" => /\ c.da = "same" => "a" \in DOMAIN OldD(s, md)
                          /\ c.db = "same" => "b" \in DOMAIN OldD(s, md)
        /\ c.da = "moved" => /\ c.d = "new" /\ c.db = "gone"
                             /\ "b" \in DOMAIN OldD(s, md)}

MdListing(old, kinds, ptrs) ==
    [n \in {m \in DOMAIN kinds : kinds[m] # "gone"} |->
        IF kinds[n] = "same" THEN old[n]
        ELSE MakeDirEntry(ptrs[n], IF kinds[n] = "new" /\ n = "d" THEN "Dir"
                                   ELSE "File", 1, 1, 0, 0)]

RemoteRevision(s, md, c) ==
    LET p == s.nextPtr
        oldRoot == DirOf(s, md)
        newD == (IF c.da = "moved" THEN "a" :> OldD(s, md)["b"] ELSE EmptyMap)
                @@ MdListing(OldD(s, md), ("a" :> c.da) @@ ("b" :> c.db),
                             ("a" :> p + 3) @@ ("b" :> p + 4))
        newRoot == MdListing(oldRoot, ("d" :> c.d) @@ ("a" :> c.a),
                             ("d" :> p + 1) @@ ("a" :> p + 2))
    IN IF c.d = "same" /\ c.a = "same"
       THEN [root |-> md, bcache |-> s.bcache, nextPtr |-> p]
       ELSE [root |-> p,
             bcache |-> (p :> DirBlock(newRoot))
                        @@ (IF c.d = "new" THEN (p + 1) :> DirBlock(newD)
                            ELSE EmptyMap)
                        @@ s.bcache,
             nextPtr |-> p + 5]

\* The order in which a Go map hands out the children: by a ranking of the
\* names, and up or down the pointers of one name.
Orders ==
    {o \in [rank : [{"a", "b", "d"} -> 1..3], down : BOOLEAN] :
        \A m, n \in {"a", "b", "d"} : m # n => o.rank[m] # o.rank[n]}

OrderKey(o, pn) ==
    (IF pn.name \in DOMAIN o.rank THEN o.rank[pn.name] ELSE 0) * 10 * RefBase
    + (IF o.down THEN 10 * RefBase - 1 - pn.ptr ELSE pn.ptr)

RECURSIVE SortKids(_, _)
SortKids(kids, o) ==
    IF kids = {} THEN <<>>
    ELSE LET k == CHOOSE x \in kids :
                     \A y \in kids : OrderKey(o, x) <= OrderKey(o, y)
         IN <<k>> \o SortKids(kids \ {k}, o)

\* The tree that FastForwardAllNodes builds from the paths of all nodes:
\* the path nodes below each path prefix.
ffChildren(nc) ==
    LET paths == {PathFromNode(nc, n) : n \in DOMAIN nc}
        pairs == UNION {{<<PathNames(SubSeq(p, 1, i)), p[i + 1]>> :
                            i \in 1..(Len(p) - 1)} : p \in paths}
    IN [prefix \in {pr[1] : pr \in pairs} |->
           {pr[2] : pr \in {q \in pairs : q[1] = prefix}}]

KidsOf(children, prefix) ==
    IF prefix \in DOMAIN children THEN children[prefix] ELSE {}

DirChange(node, kids) ==
    [node |-> node, DirUpdated |-> {k.name : k \in kids}, FileUpdated |-> <<>>]

FileChange(node) ==
    [node |-> node, DirUpdated |-> {},
     FileUpdated |-> <<[Off |-> 0, Len |-> 0]>>]

\* dd.getEntries succeeds on a path whose tail is a directory block.
dirReadable(s, dir) ==
    /\ Len(dir) > 0
    /\ tailPointer(dir) \in DOMAIN s.dirtyBcache \cup DOMAIN s.bcache
    /\ getBlock(s, tailPointer(dir)).kind = "dir"

\* unlinkDuringFastForwardLocked; the entry is the zero entry when it
\* cannot be found.
unlinkDuringFastForwardLocked(s, ref) ==
    LET oldNode == NodeOfRef(s.nodeCache, ref)
        oldPath == PathFromNode(s.nodeCache, oldNode)
        de == IF hasValidParent(oldPath) /\ ~dirReadable(s, parentPath(oldPath))
              THEN EmptyDirEntry
              ELSE getEntryLocked(s, oldPath, TRUE).de
    IN IF oldNode = "" THEN s ELSE nodeCacheUnlink(s, ref, oldPath, de).s

RECURSIVE fastForwardDirAndChildrenLocked(_, _, _)
RECURSIVE ffEachChild(_, _, _, _)

\* The body of the loop for an entry that is listed, after updatePointer.
ffListed(st, entry, node, o) ==
    IF entry.type = "Dir"
    THEN fastForwardDirAndChildrenLocked(
             IF node # ""
             THEN [st EXCEPT !.changes = Append(@,
                      DirChange(node, KidsOf(st.children,
                          PathNames(PathFromNode(st.s.nodeCache, node)))))]
             ELSE st,
             PathFromNode(st.s.nodeCache, node), o)
    ELSE IF node # ""
    THEN [st EXCEPT !.changes = Append(@, FileChange(node))]
    ELSE st

ffUpdated(st, entry, o) ==
    ffListed(st, entry, NodeOfRef(st.s.nodeCache, entry.ptr), o)

ffChild(st, entries, child, o) ==
    IF child.name \notin DOMAIN entries
    THEN [st EXCEPT !.s = unlinkDuringFastForwardLocked(st.s, child.ptr)]
    ELSE ffUpdated([st EXCEPT !.s = updatePointer(st.s, child.ptr,
                                                  entries[child.name].ptr)],
                   entries[child.name], o)

ffEachChild(st, entries, kids, o) ==
    IF kids = <<>> \/ st.err THEN st
    ELSE ffEachChild(ffChild(st, entries, Head(kids), o), entries,
                     Tail(kids), o)

ffDeletePrefix(st, prefix) ==
    IF st.err THEN st
    ELSE [st EXCEPT !.children =
             [q \in DOMAIN st.children \ {prefix} |-> st.children[q]]]

fastForwardDirAndChildrenLocked(st, currDir, o) ==
    IF ~dirReadable(st.s, currDir)
    THEN [st EXCEPT !.err = TRUE]
    ELSE ffDeletePrefix(
             ffEachChild(st, getBlock(st.s, tailPointer(currDir)).children,
                         SortKids(KidsOf(st.children, PathNames(currDir)), o),
                         o),
             PathNames(currDir))

RECURSIVE ffUnlinkAll(_, _)
ffUnlinkAll(s, kids) ==
    IF kids = <<>> THEN s
    ELSE ffUnlinkAll(unlinkDuringFastForwardLocked(s, Head(kids).ptr),
                     Tail(kids))

\* The end of FastForwardAllNodes: nothing is returned with an error, and the
\* children that remain are unlinked without one.
ffRemaining(st, o) ==
    IF st.err THEN [st EXCEPT !.changes = <<>>]
    ELSE [st EXCEPT !.s = ffUnlinkAll(st.s,
             SortKids(UNION {st.children[q] : q \in DOMAIN st.children}, o))]

ffDescend(s, children, rootPath, rootNode, o) ==
    ffRemaining(
        fastForwardDirAndChildrenLocked(
            [s |-> s, children |-> children, err |-> FALSE,
             changes |-> IF rootNode # ""
                         THEN <<DirChange(rootNode,
                                   KidsOf(children, PathNames(rootPath)))>>
                         ELSE <<>>],
            rootPath, o),
        o)

ffRoot(s, children, rootPath, md, o) ==
    ffDescend(s, children, <<[rootPath[1] EXCEPT !.ptr = md]>>,
              NodeOfRef(s.nodeCache, md), o)

\* FastForwardAllNodes under the block lock, for the root path it found.
FastForwardAllNodesLocked(s, md, rootPath, o) ==
    IF ~isValid(rootPath)
    THEN [s |-> s, children |-> EmptyMap, err |-> TRUE, changes |-> <<>>]
    ELSE ffRoot(updatePointer(s, rootPath[1].ptr, md),
                ffChildren(s.nodeCache), rootPath, md, o)

\* The path of length one that the loop over the nodes saw last; the
\* invalid path when it saw none.
ffRootPaths(nc) ==
    LET found == {p \in {PathFromNode(nc, n) : n \in DOMAIN nc} : Len(p) = 1}
    IN IF found = {} THEN {<<>>} ELSE found

ffReturn(res, rev, moved) ==
    /\ Install(res.s)
    /\ hist' = [hist EXCEPT !.ff = [n |-> @.n + 1, md |-> rev.root,
                                    changes |-> res.changes, err |-> res.err,
                                    moved |-> @.moved \/ moved]]
    /\ UNCHANGED <<pc, client, sizeSum, search, fetch, lbc, cleanup, undo>>

ffCall(rev, moved, rootPath, o) ==
    ffReturn(FastForwardAllNodesLocked(
                 [Fbo EXCEPT !.bcache = rev.bcache, !.nextPtr = rev.nextPtr],
                 rev.root, rootPath, o),
             rev, moved)

\* FastForwardAllNodes(md), for the revisions the server can hold.
FastForwardAllNodes ==
    /\ hist.ff.n < MaxFF
    /\ ~BlockLockHeld
    /\ \E c \in MdChoices(Fbo, hist.ff.md), o \in Orders,
          rootPath \in ffRootPaths(nodeCache) :
          ffCall(RemoteRevision(Fbo, hist.ff.md, c), c.da = "moved",
                 rootPath, o)

NextFF ==
    \/ FastForwardAllNodes

SpecFF == InitDir /\ [][NextFF]_vars

\* ------------------------------------------------------------ the search
\* The state of a search is the live node cache nc and the record sr of the
\* call; the cache of the attempt is the live one or the throwaway one.
SearchCache(st) == IF st.sr.live THEN st.nc ELSE st.sr.scratch

SetSearchCache(st, nc) ==
    IF st.sr.live THEN [st EXCEPT !.nc = nc]
    ELSE [st EXCEPT !.sr.scratch = nc]

\* The nodes a search creates.
SearchNodes == <<"s1", "s2", "s3", "s4", "s5">>

\* cache.GetOrCreate: the node of the ref, or a new node below the parent.
GetOrCreate(nc, ptr, name, parent) ==
    LET n == NodeOfRef(nc, ptr)
        new == SearchNodes[1 + Cardinality(DOMAIN nc \cap Range(SearchNodes))]
    IN IF n # "" THEN [nc |-> nc, node |-> n]
       ELSE [nc |-> nc @@ (new :> MakeNode(ptr, parent, name)), node |-> new]

\* A node for every path node below the root node.
RECURSIVE makeNodes(_, _)
makeNodes(made, pns) ==
    IF pns = <<>> THEN made
    ELSE makeNodes(GetOrCreate(made.nc, Head(pns).ptr, Head(pns).name,
                               made.node),
                   Tail(pns))

searchDone(st, err) ==
    [st EXCEPT !.sr.phase = "done", !.sr.err = err, !.sr.stack = <<>>,
               !.sr.nodeMap = IF err = "nil" THEN @ ELSE EmptyMap]

searchFrame(dir, soFar) ==
    [dir |-> dir, entries |-> EmptyMap, rest |-> <<>>, soFar |-> soFar,
     found |-> 0]

\* The call into searchForNodesInDirLocked, up to the fetch of the entries,
\* around which the read lock is released.
searchPush(st, dir, soFar) ==
    [st EXCEPT !.sr.stack = Append(@, searchFrame(dir, soFar)),
               !.sr.phase = "fetching"]

searchNeverOutOfDate(dirRoot, cacheRoot) == FALSE

\* The cache changed under the search: the root of the directory path is not
\* the pointer of the root node any more.
searchOutOfDate(dirRoot, cacheRoot) == dirRoot # cacheRoot

RECURSIVE trySearchWithCacheLocked(_)
RECURSIVE searchLoop(_)
RECURSIVE searchReturnFrame(_, _)

\* searchForNodesLocked with the out-of-date error of an attempt: the first
\* attempt is followed by one on a fresh cache.
searchRetry(st) ==
    IF st.sr.retried THEN searchDone(st, "outOfDate")
    ELSE trySearchWithCacheLocked(
             [st EXCEPT !.sr.live = FALSE, !.sr.retried = TRUE,
                        !.sr.scratch = EmptyMap])

\* trySearchWithCacheLocked behind the search in the directories.
trySearchEnd(st) ==
    IF st.sr.rootPtr
          # tailPointer(PathFromNode(SearchCache(st), st.sr.rootNode))
    THEN searchRetry(st)
    ELSE searchDone(st, "nil")

\* trySearchWithCacheLocked with the root node in hand.
trySearchRoot(st, node) ==
    IF node = "" THEN searchDone(st, "noRoot")
    ELSE IF st.sr.rootPtr \in st.sr.ptrs /\ Cardinality(st.sr.ptrs) = 1
    THEN searchDone([st EXCEPT !.sr.nodeMap[st.sr.rootPtr] = node], "nil")
    ELSE IF Len(PathFromNode(SearchCache(st), node)) # 1
    THEN searchDone(st, "invalidRoot")
    ELSE searchPush(
             [st EXCEPT !.sr.rootNode = node,
                        !.sr.nodeMap = IF st.sr.rootPtr \in st.sr.ptrs
                                       THEN [@ EXCEPT ![st.sr.rootPtr] = node]
                                       ELSE @],
             PathFromNode(SearchCache(st), node),
             IF st.sr.rootPtr \in st.sr.ptrs THEN 1 ELSE 0)

trySearchCreated(st, made) == trySearchRoot(SetSearchCache(st, made.nc), made.node)

trySearchFresh(st) ==
    IF st.sr.ptrs = {} THEN searchDone(st, "nil")
    ELSE IF st.sr.live
    THEN IF NodeOfRef(st.nc, st.sr.rootPtr) = ""
         THEN searchRetry(st)
         ELSE trySearchRoot(st, NodeOfRef(st.nc, st.sr.rootPtr))
    ELSE trySearchCreated(st, GetOrCreate(st.sr.scratch, st.sr.rootPtr,
                                          "root", ""))

trySearchWithCacheLocked(st) ==
    trySearchFresh([st EXCEPT !.sr.nodeMap = [p \in st.sr.ptrs |-> ""],
                              !.sr.stack = <<>>, !.sr.rootNode = ""])

TopFrame(st) == st.sr.stack[Len(st.sr.stack)]

SetTop(st, frame) == [st EXCEPT !.sr.stack[Len(st.sr.stack)] = frame]

\* A directory was searched and found n nodes: its caller adds them up and
\* goes on with its own entries, unless all nodes are found.
searchReturned(st, n) ==
    IF st.sr.stack = <<>> THEN trySearchEnd(st)
    ELSE IF TopFrame(st).soFar + TopFrame(st).found + n
               >= Cardinality(st.sr.ptrs)
    THEN searchReturnFrame(SetTop(st, [TopFrame(st) EXCEPT !.found = @ + n]),
                           TopFrame(st).found + n)
    ELSE searchLoop(SetTop(st, [TopFrame(st) EXCEPT !.found = @ + n]))

searchReturnFrame(st, n) ==
    searchReturned([st EXCEPT !.sr.stack = SubSeq(@, 1, Len(@) - 1)], n)

\* The second half of the loop body: recurse into an updated directory.
searchRecurse(st, name, de) ==
    IF de.type = "Dir" /\ de.ptr \in st.sr.newPtrs
    THEN searchPush(st, ChildPath(TopFrame(st).dir, name, de.ptr),
                    TopFrame(st).soFar + TopFrame(st).found)
    ELSE searchLoop(st)

searchFound(st, name, de, made) ==
    IF TopFrame(st).soFar + TopFrame(st).found + 1 >= Cardinality(st.sr.ptrs)
    THEN searchReturnFrame(
             [SetSearchCache(st, made.nc) EXCEPT !.sr.nodeMap[de.ptr] = made.node],
             TopFrame(st).found + 1)
    ELSE searchRecurse(
             SetTop([SetSearchCache(st, made.nc)
                        EXCEPT !.sr.nodeMap[de.ptr] = made.node],
                    [TopFrame(st) EXCEPT !.found = @ + 1]),
             name, de)

\* The first half of the loop body: a node for a pointer that is sought.
searchEntry(st, name, de) ==
    IF de.ptr \in st.sr.ptrs
    THEN searchFound(st, name, de,
             makeNodes([nc |-> SearchCache(st), node |-> st.sr.rootNode],
                       Tail(ChildPath(TopFrame(st).dir, name, de.ptr))))
    ELSE searchRecurse(st, name, de)

searchLoop(st) ==
    IF TopFrame(st).rest = <<>>
    THEN searchReturnFrame(st, TopFrame(st).found)
    ELSE searchEntry(SetTop(st, [TopFrame(st) EXCEPT !.rest = Tail(@)]),
                     Head(TopFrame(st).rest),
                     TopFrame(st).entries[Head(TopFrame(st).rest)])

RECURSIVE SortNames(_, _)
SortNames(names, o) ==
    IF names = {} THEN <<>>
    ELSE LET n == CHOOSE x \in names : \A y \in names : o.rank[x] <= o.rank[y]
         IN <<n>> \o SortNames(names \ {n}, o)

\* searchForNodesInDirLocked from the return of the fetch on.
searchForNodesInDirLocked(st, s, o) ==
    IF ~dirReadable(s, TopFrame(st).dir)
    THEN searchDone(st, "fetch")
    ELSE IF searchOutOfDate(
                TopFrame(st).dir[1].ptr,
                tailPointer(PathFromNode(SearchCache(st), st.sr.rootNode)))
    THEN searchRetry(st)
    ELSE IF TopFrame(st).soFar >= Cardinality(st.sr.ptrs)
    THEN searchReturnFrame(st, 0)
    ELSE searchLoop(SetTop(st,
             [TopFrame(st) EXCEPT
                 !.entries = getBlock(s, tailPointer(TopFrame(st).dir)).children,
                 !.rest = SortNames(DOMAIN getBlock(s,
                              tailPointer(TopFrame(st).dir)).children, o)]))

\* The search goes on with the live cache nc and the record sr.
searchInstall(st) ==
    /\ nodeCache' = st.nc
    /\ search' = [st.sr EXCEPT
                    !.created = @ \cup (DOMAIN st.nc \ DOMAIN nodeCache)]
    /\ UNCHANGED <<dirtyBcache, bcache, dirtyFiles, unrefCache, deferred,
                   doDeferWrite, dirtyDirs, dirtyRootDirEntry, errListener,
                   shouldForceSync, forceSyncChan, nextPtr, clock, sync, pc,
                   undo, client, sizeSum, fetch, lbc, cleanup, hist>>

\* The pointers of the tree below a root pointer.
TreePtrs(s, root) ==
    {root} \cup {DirOf(s, root)[n].ptr : n \in DOMAIN DirOf(s, root)}
           \cup {OldD(s, root)[n].ptr : n \in DOMAIN OldD(s, root)}

\* SearchForNodes(cache, ptrs, newPtrs, kmd, rootPtr) on the live cache, for
\* the revision the engine started with or the one it holds now.
SearchForNodes ==
    /\ ~search.called
    /\ ~BlockLockHeld
    /\ \E rootPtr \in {RootPtr, hist.ff.md} :
       \E ptrs \in {ps \in SUBSET TreePtrs(Fbo, rootPtr) :
                       Cardinality(ps) \in {1, 2}},
          newPtrs \in SUBSET {DirOf(Fbo, rootPtr)["d"].ptr} :
          searchInstall(trySearchWithCacheLocked(
              [nc |-> nodeCache,
               sr |-> [NoSearch EXCEPT !.called = TRUE, !.rootPtr = rootPtr,
                                       !.ptrs = ptrs, !.newPtrs = newPtrs]]))

\* The fetch of a directory returns to the search, which has the read lock
\* again.
SearchFetched ==
    /\ search.phase = "fetching"
    /\ ~BlockLockHeld
    /\ \E o \in Orders :
          searchInstall(searchForNodesInDirLocked(
              [nc |-> nodeCache, sr |-> search], Fbo, o))

\* SearchForNodes returns and unlocks.
SearchReturns ==
    /\ search.phase = "done"
    /\ search' = [search EXCEPT !.phase = "returned"]
    /\ UNCHANGED <<dirtyBcache, bcache, dirtyFiles, unrefCache, deferred,
                   doDeferWrite, dirtyDirs, dirtyRootDirEntry, nodeCache,
                   errListener, shouldForceSync, forceSyncChan, nextPtr, clock,
                   sync, pc, undo, client, sizeSum, fetch, lbc, cleanup, hist>>

\* The updates of a revision: the pointers that differ, from the root down.
RevisionUpdates(s, md, rev) ==
    LET new == [s EXCEPT !.bcache = rev.bcache]
        at(names) == [unref |-> MdEntryAt(s, md, names).ptr,
                      ref |-> MdEntryAt(new, rev.root, names).ptr]
    IN SelectSeq(<<at(<<>>), at(<<"d">>), at(<<"a">>), at(<<"d", "a">>),
                   at(<<"d", "b">>)>>,
                 LAMBDA u : u.unref # u.ref /\ u.unref # 0 /\ u.ref # 0)

remoteUpdated(rev, s) ==
    /\ Install(UpdatePointers(s, RevisionUpdates(Fbo, hist.ff.md, rev)))
    /\ hist' = [hist EXCEPT !.ff.n = @ + 1, !.ff.md = rev.root]
    /\ UNCHANGED <<pc, client, sizeSum, search, fetch, lbc, cleanup, undo>>

\* UpdatePointers for a remote revision that replaces the pointers of d, a
\* and d/a, while no search holds the block lock.
RemoteUpdate ==
    /\ hist.ff.n < MaxFF
    /\ search.phase \in {"idle", "fetching"}
    /\ ~BlockLockHeld
    /\ \E c \in {x \in MdChoices(Fbo, hist.ff.md) :
                    /\ {x.d, x.a, x.da} \subseteq {"same", "new"}
                    /\ x.db = "same"
                    /\ {x.d, x.a} # {"same"}} :
          remoteUpdated(RemoteRevision(Fbo, hist.ff.md, c),
                        [Fbo EXCEPT
                            !.bcache = RemoteRevision(Fbo, hist.ff.md, c).bcache,
                            !.nextPtr = RemoteRevision(Fbo, hist.ff.md, c).nextPtr])

\* The live cache holds the root, and some of the other entries.
InitSearch ==
    /\ InitCommon
    /\ QuietCache
    /\ bcache = DirInitBcache
    /\ nextPtr = 6
    /\ \E cached \in {{}, {"d"}, {"d", "n5"}} :
          nodeCache = [n \in {"root"} \cup cached |->
                          IF n = "root" THEN MakeNode(RootPtr, "", "root")
                          ELSE IF n = "d" THEN MakeNode(2, "root", "d")
                          ELSE MakeNode(5, "d", "b")]

NextSearch ==
    \/ SearchForNodes
    \/ SearchFetched
    \/ SearchReturns
    \/ RemoteUpdate

SpecSearch == InitSearch /\ [][NextSearch]_vars

\* ------------------------------------------------ the local block cache
\* A dirData on a localBcache.  An entry of the cache is a block object;
\* shared tells that it is the very object a cache of the folder holds
\* under the pointer, which a change of the block then changes as well.
lbcGetWithoutCopy(s, l, ptr, rtype) ==
    IF ptr \in DOMAIN l
    THEN [block |-> l[ptr].block, lbc |-> l, wasDirty |-> TRUE,
          live |-> l[ptr].shared]
    ELSE [block |-> getBlock(s, ptr),
          lbc |-> IF rtype = "blockWrite"
                  THEN Put(l, ptr, [block |-> getBlock(s, ptr), shared |-> TRUE])
                  ELSE l,
          wasDirty |-> IsDirtyBlock(s, ptr), live |-> TRUE]

\* The getter of newDirDataWithLBCLocked: the block of the local cache
\* when it has one; else the block getDirLocked hands back for the kind
\* blockRead, which is the cached object, copied and put into the local
\* cache when the fetch is for writing.
lbcGet(s, l, ptr, rtype) ==
    IF ptr \in DOMAIN l
    THEN [block |-> l[ptr].block, lbc |-> l, wasDirty |-> TRUE,
          live |-> l[ptr].shared]
    ELSE [block |-> getBlock(s, ptr),
          lbc |-> IF rtype = "blockWrite"
                  THEN Put(l, ptr, [block |-> getBlock(s, ptr), shared |-> FALSE])
                  ELSE l,
          wasDirty |-> IsDirtyBlock(s, ptr),
          live |-> rtype # "blockWrite"]

\* The cacher of newDirDataWithLBCLocked.
lbcPut(l, ptr, block, live) == Put(l, ptr, [block |-> block, shared |-> live])

\* The change of a block object: of the cache of the folder that holds the
\* object when it is shared.
mutateLive(s, ptr, block) ==
    IF IsDirtyBlock(s, ptr) THEN [s EXCEPT !.dirtyBcache[ptr] = block]
    ELSE [s EXCEPT !.bcache[ptr] = block]

\* dirData.setEntry: the block is fetched for writing, the entry is set in
\* it and the block is handed to the cacher.
dirSetEntryWithLBC(s, l, dir, name, de) ==
    LET ptr == tailPointer(dir)
        g == lbcGet(s, l, ptr, "blockWrite")
        blk == [g.block EXCEPT !.children = Put(@, name, de)]
    IN [s |-> IF g.live THEN mutateLive(s, ptr, blk) ELSE s,
        lbc |-> lbcPut(g.lbc, ptr, blk, g.live)]

mergeDirtyEntryWithLBC(s, l, file, dirtyDe) ==
    dirSetEntryWithLBC(s, l, parentPath(file), tailName(file), dirtyDe)

\* The entries the caller of the sync merges: the entry StartSync handed
\* back, with the encoded size it has or with the one of the readied block.
MergedEntries(s) ==
    {s.sync.dirtyDe, [s.sync.dirtyDe EXCEPT !.encSize = @ + 1]}

MergeDirtyEntryWithLBC ==
    /\ sync.phase = "started"
    /\ ~BlockLockHeld
    /\ \E de \in MergedEntries(Fbo) :
          LET r == mergeDirtyEntryWithLBC(Fbo, lbc, sync.file, de)
          IN /\ Install(r.s)
             /\ lbc' = r.lbc
    /\ UNCHANGED <<pc, undo, client, sizeSum, search, fetch, cleanup, hist>>

NextLBC ==
    \/ WriteWhole
    \/ StartSyncWrite
    \/ StartSyncReturn
    \/ MergeDirtyEntryWithLBC
    \/ SyncSucceeds

SpecLBC == Init /\ [][NextLBC]_vars

\* ------------------------------------- the blocks of failed sync attempts
\* cleanUpUnusedBlocks on the toCleanIfUnused list of a SyncInfo: each
\* entry is the metadata of a failed attempt, of which the merge status
\* counts, with the blocks the attempt had readied.
MaxToClean == 2

CleanPtrs == {11, 12}

MergeStatuses == {"merged", "unmerged"}

ToCleanEntries ==
    [merged : MergeStatuses,
     blockStates : {<<>>, <<11>>, <<12>>, <<11, 12>>}]

RECURSIVE ToCleanLists(_)
ToCleanLists(n) ==
    IF n = 0 THEN {<<>>}
    ELSE ToCleanLists(n - 1)
         \cup {Append(l, e) : l \in {x \in ToCleanLists(n - 1) : Len(x) = n - 1},
                              e \in ToCleanEntries}

\* The loop over the blocks of one entry: a block that was seen is skipped,
\* and so is a block the committed metadata refers to when the entry is
\* cleaned at once.
RECURSIVE failedBlocks(_, _, _, _)
failedBlocks(bs, seen, refs, bdType) ==
    IF bs = <<>> THEN [seen |-> seen, failed |-> <<>>]
    ELSE LET ptr == Head(bs)
         IN IF ptr \in seen THEN failedBlocks(Tail(bs), seen, refs, bdType)
            ELSE LET rest == failedBlocks(Tail(bs), seen \cup {ptr}, refs, bdType)
                 IN IF ptr \in refs /\ bdType = "blockDeleteAlways" THEN rest
                    ELSE [rest EXCEPT !.failed = <<ptr>> \o @]

\* The loop over the entries, with the calls of cleanUpBlockState it makes.
RECURSIVE cleanLoop(_, _, _, _)
cleanLoop(toClean, seen, refs, merged) ==
    IF toClean = <<>> THEN <<>>
    ELSE LET oldMD == Head(toClean)
             bdType == IF oldMD.merged # merged THEN "blockDeleteOnMDFail"
                       ELSE "blockDeleteAlways"
             r == failedBlocks(oldMD.blockStates, seen, refs, bdType)
             rest == cleanLoop(Tail(toClean), r.seen, refs, merged)
         IN IF Len(r.failed) > 0
            THEN <<[merged |-> oldMD.merged, ptrs |-> r.failed,
                    bdType |-> bdType]>> \o rest
            ELSE rest

cleanUpUnusedBlocks(toClean, refs, merged) ==
    IF Len(toClean) = 0 THEN <<>>
    ELSE cleanLoop(toClean, {}, refs, merged)

CleanUpUnusedBlocks ==
    /\ ~cleanup.called
    /\ \E toClean \in ToCleanLists(MaxToClean), refs \in SUBSET CleanPtrs,
          merged \in MergeStatuses :
          cleanup' = [called |-> TRUE, toClean |-> toClean, refs |-> refs,
                      merged |-> merged,
                      deletions |-> cleanUpUnusedBlocks(toClean, refs, merged)]
    /\ UNCHANGED <<dirtyBcache, bcache, dirtyFiles, unrefCache, deferred,
                   doDeferWrite, dirtyDirs, dirtyRootDirEntry, nodeCache,
                   errListener, shouldForceSync, forceSyncChan, nextPtr, clock,
                   sync, pc, undo, client, sizeSum, search, fetch, lbc, hist>>

NextClean == CleanUpUnusedBlocks

SpecClean == Init /\ [][NextClean]_vars

\* ------------------------------------------------- the block fetch path
\* getBlockHelperLocked call by call, with the calls of the file that
\* reach it: a fetch that misses both caches waits for the block server,
\* and the calls that need the block lock run meanwhile when the fetch
\* released it.
\* BlockPointer.IsValid: the zero pointer is not valid.
ptrIsValid(ptr) == ptr # 0

\* The calls that reach the fetch, with the lock their caller holds (none
\* in the token of a worker of a fan-out, whose coordinator holds the read
\* lock), the kind they pass and the path they notify on.
FetchEntries ==
    {[entry |-> "GetBlockForReading", lock |-> "read", rtype |-> "blockRead",
      notifies |-> FALSE, lifetime |-> "NoCacheEntry"]}
    \cup {[entry |-> "GetDir", lock |-> "read", rtype |-> k,
           notifies |-> TRUE, lifetime |-> "TransientEntry"] :
             k \in {"blockRead", "blockWrite", "blockLookup"}}
    \cup {[entry |-> "getFileLocked", lock |-> "write", rtype |-> "blockWrite",
           notifies |-> TRUE, lifetime |-> "TransientEntry"],
          [entry |-> "getFileBlockLocked", lock |-> "none",
           rtype |-> "blockReadParallel",
           notifies |-> TRUE, lifetime |-> "TransientEntry"]}

\* The pointers that are fetched: the zero pointer and the first pointer
\* of the file, which is dirty once the file was written.
FetchPtrs == {0, 2}

releasesAlsoForLookup(rtype, lock) ==
    rtype # "blockReadParallel" /\ lock = "read"

\* DoRUnlockedIfPossible is asked for every kind but blockReadParallel and
\* blockLookup, and it releases the lock of a token that holds the read
\* lock.
releasesLock(rtype, lock) ==
    /\ rtype # "blockReadParallel" /\ rtype # "blockLookup"
    /\ lock = "read"

\* The part of getBlockHelperLocked before the call of the block server.
\* The result is the fetch record: back to idle when the call returned,
\* "remote" when it waits for the server.
getBlockHelperLocked(s, ft, e, ptr, versionOk, notifyValid) ==
    LET call == [NoFetch EXCEPT !.entry = e.entry, !.rtype = e.rtype,
                                !.lock = e.lock, !.ptr = ptr,
                                !.versionOk = versionOk,
                                !.notifyValid = notifyValid,
                                !.lifetime = e.lifetime, !.clean = ft.clean]
        Returns(res) == [NoFetch EXCEPT !.clean = ft.clean, !.result = res]
    IN IF ~ptrIsValid(ptr) THEN Returns("invalidRef")
       ELSE IF ptr \in DOMAIN s.dirtyBcache THEN Returns("dirty")
       ELSE IF ptr \in ft.clean THEN Returns("clean")
       ELSE IF ~versionOk THEN Returns("newDataVersion")
       ELSE [call EXCEPT !.phase = "remote",
                         !.notified = notifyValid,
                         !.begins = IF notifyValid THEN 1 ELSE 0,
                         !.released = releasesLock(e.rtype, e.lock)]

\* What the block server answers: the block, an error, or the error of the
\* cancelled context.
GetOutcomes(s, ptr) ==
    IF ptr \in DOMAIN s.bcache THEN {"fetched", "serverErr", "canceled"}
    ELSE {"serverErr", "canceled"}

getBlockReturnsUndeferred(ft, out) ==
    [NoFetch EXCEPT
       !.result = out, !.begins = ft.begins,
       !.ends = IF ft.notified /\ out = "fetched" THEN 1 ELSE 0,
       !.clean = IF out = "fetched" /\ ft.lifetime = "TransientEntry"
                 THEN ft.clean \cup {ft.ptr} ELSE ft.clean]

\* The return of the call of the block server: the lock is taken again
\* when it was released, the deferred read-end notification runs.
getBlockReturns(ft, out) ==
    [NoFetch EXCEPT
       !.result = out, !.begins = ft.begins,
       !.ends = IF ft.notified THEN ft.ends + 1 ELSE ft.ends,
       !.clean = IF out = "fetched" /\ ft.lifetime = "TransientEntry"
                 THEN ft.clean \cup {ft.ptr} ELSE ft.clean]

GetBlock ==
    /\ fetch.phase = "idle"
    /\ ~BlockLockHeld
    /\ \E e \in FetchEntries, ptr \in FetchPtrs, versionOk \in BOOLEAN,
          notifyValid \in BOOLEAN :
          /\ notifyValid => e.notifies
          /\ fetch' = getBlockHelperLocked(Fbo, fetch, e, ptr, versionOk,
                                           notifyValid)
    /\ UNCHANGED <<dirtyBcache, bcache, dirtyFiles, unrefCache, deferred,
                   doDeferWrite, dirtyDirs, dirtyRootDirEntry, nodeCache,
                   errListener, shouldForceSync, forceSyncChan, nextPtr, clock,
                   sync, pc, undo, client, sizeSum, search, lbc, cleanup, hist>>

RemoteGetReturns ==
    /\ fetch.phase = "remote"
    /\ fetch.released => ~BlockLockHeld
    /\ \E out \in GetOutcomes(Fbo, fetch.ptr) :
          fetch' = getBlockReturns(fetch, out)
    /\ UNCHANGED <<dirtyBcache, bcache, dirtyFiles, unrefCache, deferred,
                   doDeferWrite, dirtyDirs, dirtyRootDirEntry, nodeCache,
                   errListener, shouldForceSync, forceSyncChan, nextPtr, clock,
                   sync, pc, undo, client, sizeSum, search, lbc, cleanup, hist>>

NextFetch ==
    \/ GetBlock
    \/ RemoteGetReturns
    \/ WriteWhole
    \/ StartSyncWrite
    \/ StartSyncReturn
    \/ SyncSucceeds

SpecFetch == Init /\ [][NextFetch]_vars

\* The fetches next to the writes that make the block dirty.  The block
\* server answers every call, with an error at the latest when the context
\* of the call is done.
NextNotify ==
    \/ GetBlock
    \/ RemoteGetReturns
    \/ WriteWhole

SpecNotify == Init /\ [][NextNotify]_vars /\ WF_vars(RemoteGetReturns)

\* ----------------------------------------------------------- properties
\* The blocks of the file that can be in the dirty block cache: its top
\* block, the leaves of the top block and the blocks its dirtyFile tracks.
FileBlockPtrs(s, r) ==
    {r} \cup {getBlock(s, r).iptrs[i].ptr : i \in DOMAIN getBlock(s, r).iptrs}
        \cup (IF r \in DOMAIN s.dirtyFiles
              THEN DOMAIN s.dirtyFiles[r].fileBlockStates ELSE {})

LastWriteIsRead ==
    hist.lastWrite.valid =>
        Read(Fbo, "f", hist.lastWrite.off, Len(hist.lastWrite.data))
            = hist.lastWrite.data

\* C1: a Write issued while a sync of the file is in flight is read back by
\* every later Read of its range, and the op of the next StartSync of the
\* file holds its range exactly once, however the sync in flight ended.
C1_WriteDuringSyncRecordedOnce ==
    /\ hist.lastWrite.inSync => LastWriteIsRead
    /\ \A c \in hist.counts : c.n = 1

\* The same for a sync that did not end in a recoverable error.
C1_RecordedOnceUnlessRecoverable ==
    /\ hist.lastWrite.inSync => LastWriteIsRead
    /\ \A c \in hist.counts : c.outcome # "recoverable" => c.n = 1

\* C2: from the return of StartSync to the end of the sync, the op carried
\* by the metadata is the one StartSync returned, whatever Writes and
\* Truncates change in the op held by unrefCache.
C2_MdOpIndependent ==
    sync.phase = "started" =>
        /\ MdOp(Fbo) = hist.mdAtStart
        /\ \A i \in DOMAIN MdOp(Fbo).writes : MdOp(Fbo).writes[i].id = 0

C2_Witness ==
    /\ sync.phase = "started"
    /\ tailPointer(sync.file) \in DOMAIN unrefCache
    /\ \E i \in DOMAIN unrefCache[tailPointer(sync.file)].op.writes :
          unrefCache[tailPointer(sync.file)].op.writes[i].id > 0
    /\ MdOp(Fbo).writes # <<>>

\* C3: in every op of unrefCache the entries of Write and Truncate calls
\* stand in the order in which the calls held the block lock.
C3_OpInIssueOrder ==
    \A r \in DOMAIN unrefCache :
        LET ws == unrefCache[r].op.writes
        IN \A i, j \in DOMAIN ws :
              (i < j /\ ws[i].id > 0 /\ ws[j].id > 0) => ws[i].id < ws[j].id

C3_Witness ==
    \E r \in DOMAIN unrefCache :
        LET ws == unrefCache[r].op.writes
        IN \E i, j \in DOMAIN ws :
              /\ i < j /\ ws[i].id > 0 /\ ws[j].id > ws[i].id
              /\ ws[i].kind # ws[j].kind

\* C4: a retry that succeeds after recoverable errors commits refs for the
\* same leaves, and as many, as the first attempt would have committed.
C4_RetryCommitsSameRefs ==
    hist.committed.valid => hist.committed.last = hist.committed.first

C4_Witness ==
    /\ hist.committed.valid
    /\ hist.committed.first.n > 0
    /\ hist.committed.last = hist.committed.first

\* C5: after ClearCacheInfo the file is not dirty and its ref is not among
\* the dirty file refs.
C5_ClearedIsClean ==
    [][ClearCacheInfo =>
          /\ ~IsDirty(Fbo', FilePath')
          /\ tailPointer(FilePath') \notin GetDirtyFileBlockRefs(Fbo')]_vars

\* The part of C5 about the dirty file refs.
C5_ClearedRefIsGone ==
    [][ClearCacheInfo =>
          tailPointer(FilePath') \notin GetDirtyFileBlockRefs(Fbo')]_vars

\* C6: for every ref of unrefCache, a DirtyFile exists for the tail pointer
\* exactly if a block of the file is in the dirty block cache.
C6_DirtyFileIffDirtyBlock ==
    \A r \in DOMAIN unrefCache :
        (r \in DOMAIN dirtyFiles)
            <=> (\E p \in FileBlockPtrs(Fbo, r) : IsDirtyBlock(Fbo, p))

\* One direction of C6.
C6_DirtyBlockHasDirtyFile ==
    \A r \in DOMAIN unrefCache :
        (\E p \in FileBlockPtrs(Fbo, r) : IsDirtyBlock(Fbo, p))
            => r \in DOMAIN dirtyFiles

\* C7: a Read of the range of the last Write returns the bytes written, as
\* long as no Truncate or other Write was called since.
C7_ReadYourWrite == LastWriteIsRead

\* What C8 compares: the dirty state, the dirty refs and the entries of
\* the path the mutation named and of its directory.
Observed(snap) ==
    [state |-> snap.state, fileRefs |-> snap.fileRefs, dirRefs |-> snap.dirRefs,
     entry |-> snap.entry, dirEntry |-> snap.dirEntry]

\* C8: the undo of an add, a remove or a set-attr, invoked right after it,
\* gives back the dirty state, the dirty file and directory refs and the
\* entries that were observed before the mutation.
C8_UndoRestoresQueries ==
    (hist.undone /\ hist.lastOp.kind \in {"add", "remove", "setattr"}) =>
        Observed(Snapshot(Fbo, hist.lastOp)) = Observed(hist.before)

C8_Witness ==
    /\ hist.undone
    /\ hist.lastOp.kind = "remove"
    /\ hist.before.state = "dirtyState"
    /\ hist.lastOp.dir = RootPath
    /\ hist.before.dirRefs = {RootPtr}
    /\ Observed(Snapshot(Fbo, hist.lastOp)) = Observed(hist.before)

\* The same with every directory clean before the mutation.
C8_WitnessClean ==
    /\ hist.undone
    /\ hist.lastOp.kind \in {"add", "setattr"}
    /\ hist.before.state = "cleanState"
    /\ GetState(Fbo) = "cleanState"

\* The parts of a composite undo in the order in which they run.
RECURSIVE PartsOf(_)
PartsOf(steps) ==
    IF steps = <<>> THEN <<>>
    ELSE LET rest == PartsOf(Tail(steps))
         IN IF rest # <<>> /\ Head(rest) = Head(steps).part THEN rest
            ELSE <<Head(steps).part>> \o rest

PartRank(part) ==
    CASE part = "undoMove" -> 1 [] part = "undoRm" -> 2
      [] part = "undoAdd" -> 3 [] OTHER -> 4

RenamePending ==
    hist.lastOp.kind = "rename" /\ ~hist.lastOp.noop /\ undo.state = "fn"

\* After a rename: the new parent holds newDe under newName, the old parent
\* does not hold oldName, the node of a replaced entry is unlinked, and the
\* undo runs node move, remove-old, add-new, remove-replacement in that order.
C9_RenamePost ==
    RenamePending =>
        /\ dirLookupFound(Fbo, hist.lastOp.newDir, hist.lastOp.newName)
        /\ dirLookup(Fbo, hist.lastOp.newDir, hist.lastOp.newName) = hist.lastOp.newDe
        /\ ~dirLookupFound(Fbo, hist.lastOp.dir, hist.lastOp.name)
        /\ hist.lastOp.replaced =>
              \A n \in DOMAIN nodeCache :
                  nodeCache[n].ptr = hist.lastOp.replacedPtr => nodeCache[n].unlinked
        /\ \A i, j \in DOMAIN PartsOf(undo.steps) :
              i < j => PartRank(PartsOf(undo.steps)[i]) < PartRank(PartsOf(undo.steps)[j])

\* C9: a rename has the effects above, and its undo gives back the entries
\* of both parent directories and the links of the node cache.
C9_RenameAndUndo ==
    /\ C9_RenamePost
    /\ (hist.undone /\ hist.lastOp.kind = "rename") =>
          /\ Listing(Fbo, hist.lastOp.dir) = hist.before.oldListing
          /\ Listing(Fbo, hist.lastOp.newDir) = hist.before.newListing
          /\ nodeCache = hist.before.nodes

\* The undo of a rename whose old parent was clean gives everything back.
C9_UndoFromCleanOldParent ==
    (/\ hist.undone /\ hist.lastOp.kind = "rename"
     /\ tailPointer(hist.lastOp.dir) \notin hist.before.dirRefs) =>
          /\ Listing(Fbo, hist.lastOp.dir) = hist.before.oldListing
          /\ Listing(Fbo, hist.lastOp.newDir) = hist.before.newListing
          /\ nodeCache = hist.before.nodes

\* C10: a rename onto the same name of the same directory returns a nil
\* undo and changes neither dirtyDirs, the root-entry shadow, the dirty
\* block cache nor the node cache.
C10_NoopRename ==
    [][(/\ hist'.nDirOps = hist.nDirOps + 1
        /\ hist'.lastOp.kind = "rename"
        /\ hist'.lastOp.noop) =>
          /\ undo' = NilUndo
          /\ UNCHANGED <<dirtyDirs, dirtyRootDirEntry, dirtyBcache, nodeCache>>]_vars

C10_Witness ==
    /\ hist.lastOp.kind = "rename"
    /\ hist.lastOp.noop
    /\ hist.lastOp.replaced
    /\ undo = NilUndo
    /\ dirtyDirs # EmptyMap

\* C11: when FinishSyncLocked returns without error, no pointer of
\* oldFileBlockPtrs is in the dirty block cache, the old tail has no
\* deferred state, no sync info and no dirty file, stillDirty says whether
\* a deferred write or truncate was queued for the file, and with nothing
\* queued the file is not dirty and no toCleanIfUnused entry remains.
FinishSyncReturns ==
    sync.phase = "started" /\ sync'.phase = "finished"

OldTail == tailPointer(sync.file)

C11_FinishSyncPost ==
    [][FinishSyncReturns =>
         /\ \A i \in DOMAIN sync.oldFileBlockPtrs :
               sync.oldFileBlockPtrs[i] \notin DOMAIN dirtyBcache'
         /\ OldTail \notin DOMAIN deferred'
         /\ OldTail \notin DOMAIN unrefCache'
         /\ OldTail \notin DOMAIN dirtyFiles'
         /\ hist'.stillDirty <=> Len(deferredStateOf(Fbo, OldTail).writes) > 0
         /\ Len(deferredStateOf(Fbo, OldTail).writes) = 0 =>
               /\ ~IsDirty(Fbo, FilePath)'
               /\ \A ref \in DOMAIN unrefCache' :
                     unrefCache'[ref].toCleanIfUnused = <<>>]_vars

\* A sync that failed once and had a write deferred has finished: the
\* write was replayed on the new path.
C11_Witness ==
    /\ hist.outcome = "success"
    /\ hist.stillDirty
    /\ sync.phase = "finished"
    /\ IsDirty(Fbo, FilePath)
    /\ deferred = EmptyMap

\* A sync during which nothing was queued has finished.
C11_WitnessClean ==
    /\ hist.outcome = "success"
    /\ ~hist.stillDirty
    /\ sync.phase = "finished"
    /\ ~IsDirty(Fbo, FilePath)

\* C12: CleanupSyncState with a nil error does not take the block lock,
\* leaves dirtyFiles, unrefCache, deferred and the dirty block cache as
\* they are and sends nothing to an error listener.
CleanupWithNil == sync.phase = "finished" /\ sync'.phase = "idle"

C12_NilCleanupIsNoop ==
    [][CleanupWithNil =>
         /\ ~hist'.locked
         /\ UNCHANGED <<dirtyFiles, unrefCache, deferred, dirtyBcache,
                        errListener>>]_vars

\* The cleanup of a successful sync has run while the file was dirty again
\* and a call was waiting with its listener registered.
C12_Witness ==
    /\ sync.phase = "idle"
    /\ hist.outcome = "success"
    /\ ~hist.locked
    /\ pc = "waiting"
    /\ \E p \in DOMAIN dirtyFiles : "held" \in dirtyFiles[p].errListeners
    /\ unrefCache # EmptyMap
    /\ dirtyBcache # EmptyMap

\* C13: CleanupSyncState with a recoverable block error sends nothing to
\* an error listener and drops no registration, so the waiting call goes
\* on waiting, and it keeps the deferred state of the file with its
\* closures, dirtyDeletes and waitBytes.
CleanupWith(errs) ==
    sync.phase = "started" /\ sync'.phase = "idle" /\ hist'.outcome \in errs

C13_RecoverableKeepsWaiters ==
    [][CleanupWith({"recoverable"}) =>
         /\ errListener' = errListener
         /\ \A p \in DOMAIN dirtyFiles :
               /\ p \in DOMAIN dirtyFiles'
               /\ dirtyFiles'[p].errListeners = dirtyFiles[p].errListeners
         /\ pc' = pc
         /\ deferred' = deferred]_vars

\* A recoverable error has ended a sync while a call was waiting and a
\* write that newly dirtied bytes was queued.
C13_Witness ==
    /\ sync.phase = "idle"
    /\ hist.outcome = "recoverable"
    /\ pc = "waiting"
    /\ errListener = <<>>
    /\ \E p \in DOMAIN dirtyFiles : "held" \in dirtyFiles[p].errListeners
    /\ \E ref \in DOMAIN deferred :
          /\ deferred[ref].writes # <<>>
          /\ deferred[ref].dirtyDeletes # <<>>
          /\ deferred[ref].waitBytes > 0

\* C14: CleanupSyncState with an unrecoverable error sends that error to
\* the listeners of the dirty file, takes the waitBytes of the deferred
\* state off its notYetSyncingBytes, deletes from the dirty block cache
\* exactly the orphaned pointers of oldFileBlockPtrs, removes the deferred
\* state and appends one entry, the metadata with the block put state, to
\* toCleanIfUnused.
C14_UnrecoverableCleanup ==
    [][CleanupWith({"other", "canceled"}) =>
         LET tail == tailPointer(sync.file)
             df == dirtyFiles[tail]
         IN /\ tail \in DOMAIN dirtyFiles
            /\ tail \in DOMAIN dirtyFiles'
            /\ dirtyFiles'[tail].errListeners = {}
            /\ errListener' = IF "held" \in df.errListeners
                              THEN Append(errListener, hist'.outcome)
                              ELSE errListener
            /\ dirtyFiles'[tail].notYetSyncingBytes =
                  df.notYetSyncingBytes - deferredStateOf(Fbo, tail).waitBytes
            /\ DOMAIN dirtyBcache' =
                  DOMAIN dirtyBcache \
                     {p \in Range(sync.oldFileBlockPtrs) : isBlockOrphaned(df, p)}
            /\ tail \notin DOMAIN deferred'
            /\ tail \in DOMAIN unrefCache =>
                  unrefCache'[tail].toCleanIfUnused =
                     Append(unrefCache[tail].toCleanIfUnused,
                            [md |-> hist.nSyncs,
                             bps |-> unrefCache[tail].bps.blockStates])]_vars

\* An unrecoverable error has ended a sync: the waiting call holds the
\* error, a readied leaf is still dirty under a pointer that was not
\* orphaned, and the entry for the failed metadata is there.
C14_Witness ==
    /\ sync.phase = "idle"
    /\ hist.outcome = "other"
    /\ pc = "waiting"
    /\ errListener = <<"other">>
    /\ dirtyBcache # EmptyMap
    /\ deferred = EmptyMap
    /\ \E ref \in DOMAIN unrefCache : Len(unrefCache[ref].toCleanIfUnused) = 1

\* C15: once CleanupSyncState has returned for an error, no block of a
\* dirty file is syncing and the op has no update state, and a Write or
\* Truncate issued before the next StartSync is applied directly: nothing
\* is added to the deferred state and the op of the sync info of the file
\* holds the range of the Write.
AfterFailedSync == sync.phase = "idle" /\ hist.outcome \in SyncErrors

NoBlockSyncing ==
    /\ \A p \in DOMAIN dirtyFiles :
          \A b \in DOMAIN dirtyFiles[p].fileBlockStates :
             ~isBlockSyncing(dirtyFiles[p], b)
    /\ \A ref \in DOMAIN unrefCache : unrefCache[ref].op.updates = <<>>

C15_NoDeferralAfterCleanup ==
    [][/\ AfterFailedSync' => NoBlockSyncing'
       /\ AfterFailedSync /\ hist'.nWrites = hist.nWrites + 1 =>
             /\ deferred' = deferred
             /\ ~doDeferWrite'
             /\ hist'.lastWrite.valid =>
                   Count(unrefCache'[tailPointer(FilePath)].op.writes,
                         hist'.nWrites) = 1]_vars

\* A Write of one byte has been applied after a failed sync and before the
\* next StartSync, to a file that has a closure queued.
C15_Witness ==
    /\ AfterFailedSync
    /\ hist.lastWrite.valid
    /\ ~hist.lastWrite.inSync
    /\ Len(hist.lastWrite.data) = 1
    /\ hist.pending # {}

\* ------------------------------------------------ the wait for admission
\* C16: a Write or Truncate whose wait read an error from its listener
\* that is no context error does not go on to the part under the block
\* lock: the error ends the call, also when the admission channel was
\* ready at the time the error was queued.
C16_ListenerErrorIsFatal ==
    pc = "admitted" => client.err \in {"nil", "canceled", "deadlineExceeded"}

\* The wait takes a context error from its listener in the loop (and
\* not on the way out after admission, nor as its own context ends).
ReceivesContextError ==
    /\ pc = "waiting"
    /\ errListener # <<>>
    /\ Head(errListener) \in {"canceled", "deadlineExceeded"}
    /\ errListener' # errListener
    /\ pc' # "admitted"
    /\ client'.ret # "ctxErr"

\* C17: a context error that reaches the waiting Write or Truncate
\* through its listener does not end the call: nothing is returned and
\* nothing written, a fresh listener with an empty buffer is registered on
\* the dirty file of the file, and the call waits on for its admission,
\* which is neither lost nor invented.
C17_ContextErrorTransparent ==
    [][ReceivesContextError =>
          /\ pc' = "waiting"
          /\ client'.ret = "none"
          /\ client'.updates = <<>>
          /\ client'.c = client.c
          /\ errListener' = <<>>
          /\ tailPointer(FilePath) \in DOMAIN dirtyFiles'
          /\ "held" \in dirtyFiles'[tailPointer(FilePath)].errListeners
          /\ hist'.nWrites = hist.nWrites
          /\ bcache' = bcache /\ dirtyBcache' = dirtyBcache]_vars

\* A call that a cancelled sync interrupted waits with a fresh listener,
\* and its admission is ready.
C17_Witness ==
    /\ pc = "waiting"
    /\ client.err = "canceled"
    /\ client.c
    /\ errListener = <<>>
    /\ "held" \in dirtyFiles[tailPointer(FilePath)].errListeners

\* C18: a Write or Truncate whose request was accepted calls
\* UpdateUnsyncedBytes exactly once, as it returns, with the negation of
\* the byte count it passed to RequestPermissionToDirty, whatever it
\* returns; before that, and after a refused request, it makes no such
\* call.
C18_BytesGivenBack ==
    /\ client.ret \in {"none", "requestErr"} => client.updates = <<>>
    /\ client.ret \notin {"none", "requestErr"} =>
          client.updates = <<-client.n>>

\* A Truncate to a size beyond the cutoff that failed in its wait gave its
\* bytes back.
C18_Witness ==
    /\ client.ret = "other"
    /\ client.n = truncateExtendCutoffPoint + 4
    /\ client.updates = <<-client.n>>

\* C19: a Write or Truncate that went through the part under the block
\* lock while the dirty block cache asks for a sync and forceSyncChan has
\* room leaves its signal on the channel.
C19_ForceSyncPolled ==
    [][(/\ pc = "admitted"
        /\ client'.ret = "nil"
        /\ shouldForceSync
        /\ forceSyncChan = "room") => forceSyncChan' = "signalled"]_vars

\* ------------------------------------------------ the sum of encoded sizes
\* The pointers of ptrs whose error ends the call.
FailingPtrs(ptrs, ignore) ==
    {i \in DOMAIN ptrs : \/ ptrs[i] = "broken"
                         \/ ptrs[i] = "gone" /\ ptrs[i] \notin ignore}

RECURSIVE SizesOf(_)
SizesOf(ptrs) ==
    IF ptrs = <<>> THEN 0 ELSE EncodedSize[Head(ptrs)] + SizesOf(Tail(ptrs))

\* C20: GetCleanEncodedBlocksSizeSum returns, whatever the order its
\* workers run in: when an error that is not an ignored recoverable one
\* is met it returns 0 and an error, and otherwise nil and the sum of the
\* encoded sizes of the pointers but the ignored failing ones; the group
\* has min(numBlockSizeWorkersMax, len(ptrs)) workers.
C20_SizeSum ==
    /\ [](/\ Len(sizeSum.workers) = Min(numBlockSizeWorkersMax, Len(sizeSum.ptrs))
          /\ sizeSum.ret # <<>> =>
                IF FailingPtrs(sizeSum.ptrs, sizeSum.ignore) # {}
                THEN sizeSum.ret[1] = 0 /\ sizeSum.ret[2] # "nil"
                ELSE sizeSum.ret = <<SizesOf(sizeSum.ptrs), "nil">>)
    /\ <>(sizeSum.ret # <<>>)

\* The sum of three pointers, one of them ignored, whose sizes arrived
\* against the order of the pointers.
C20_Witness ==
    /\ sizeSum.ptrs = <<"cached", "gone", "stored">>
    /\ sizeSum.sumCh = <<2, 1>>
    /\ sizeSum.ret = <<3, "nil">>

\* ------------------------------------------- truncates at the cutoff
\* The sub-operations of the op of the file.
OpWrites == unrefCache[tailPointer(FilePath)].op.writes

\* A truncate around the cutoff was just applied.
CutoffTruncate == hist'.extendBy # 0 /\ hist'.nWrites = hist.nWrites + 1

\* C24: a Truncate that extends the file by exactly
\* truncateExtendCutoffPoint bytes writes that many zero bytes at the old
\* end of the file and adds the WriteRange of this write to the op; one
\* that extends it by one byte more writes no byte and adds a Truncate to
\* the new size to the op, the entry of the file taking the new size.
C24_CutoffBoundary ==
    [][CutoffTruncate =>
          IF hist'.extendBy = truncateExtendCutoffPoint
          THEN /\ OpWrites'[Len(OpWrites')] =
                     WriteRange(FileSize, truncateExtendCutoffPoint, hist'.nWrites)
               /\ FileContents(Fbo, FilePath)' =
                     FileContents(Fbo, FilePath)
                        \o [j \in 1..truncateExtendCutoffPoint |-> 0]
               /\ GetEntry(Fbo, FilePath)'.de.size =
                     FileSize + truncateExtendCutoffPoint
          ELSE /\ OpWrites'[Len(OpWrites')] =
                     TruncateOp(FileSize + hist'.extendBy, hist'.nWrites)
               /\ FileContents(Fbo, FilePath)' = FileContents(Fbo, FilePath)
               /\ GetEntry(Fbo, FilePath)'.de.size = FileSize + hist'.extendBy]_vars

\* A file of one byte was extended by the cutoff: it holds the cutoff and
\* one bytes.
C24_Witness ==
    /\ hist.extendBy = truncateExtendCutoffPoint
    /\ FileSize = truncateExtendCutoffPoint + 1

\* A truncate to the length of the file was just applied.
SameSizeTruncate == hist'.sameSize /\ hist'.nWrites = hist.nWrites + 1

\* C25: a Truncate to the length the file has adds nothing to an op,
\* creates no sync info, leaves the entry of the file as it was, and
\* IsDirty of the file and GetState answer after it what they answered
\* before it.
C25_SameSizeIsNoop ==
    [][SameSizeTruncate =>
          /\ unrefCache' = unrefCache
          /\ GetEntry(Fbo, FilePath)' = GetEntry(Fbo, FilePath)
          /\ IsDirty(Fbo, FilePath)' = IsDirty(Fbo, FilePath)
          /\ GetState(Fbo)' = GetState(Fbo)]_vars

\* What does hold of it: no op, sync info, entry or block is touched, and
\* nothing is deferred.
C25_SameSizeTouchesNoData ==
    [][SameSizeTruncate =>
          /\ unrefCache' = unrefCache
          /\ GetEntry(Fbo, FilePath)' = GetEntry(Fbo, FilePath)
          /\ dirtyBcache' = dirtyBcache /\ bcache' = bcache
          /\ deferred' = deferred
          /\ dirtyDirs' = dirtyDirs
          /\ dirtyRootDirEntry' = dirtyRootDirEntry]_vars

\* The offsets below the old size that the last Write left alone.
Untouched ==
    {j \in 0..(hist.preWrite.size - 1) :
        j < hist.preWrite.off \/ j >= hist.preWrite.off + hist.preWrite.len}

\* C26: after a Write and a Truncate to the size the file had before
\* that Write, the entry of the file has this size again and every byte
\* below it that the Write did not cover reads as before the Write.
C26_WriteThenTruncateBack ==
    hist.back =>
       /\ GetEntry(Fbo, FilePath).de.size = hist.preWrite.size
       /\ \A j \in Untouched :
             Read(Fbo, "f", j, 1) = <<hist.preWrite.contents[j + 1]>>

\* What does hold: the same as long as no sync of the file was started.
C26_BackWithoutSync ==
    (hist.back /\ hist.nSyncs = 0) =>
       /\ GetEntry(Fbo, FilePath).de.size = hist.preWrite.size
       /\ \A j \in Untouched :
             Read(Fbo, "f", j, 1) = <<hist.preWrite.contents[j + 1]>>

\* A call has returned an error of its input in this step.
FailedCall == hist'.failed.flip # hist.failed.flip

IsDirtyUnchanged(node) ==
    isValid(PathFromNode(nodeCache, node)) =>
       IsDirty(Fbo, PathFromNode(nodeCache, node))'
          = IsDirty(Fbo, PathFromNode(nodeCache, node))

NoDataTouched ==
    /\ unrefCache' = unrefCache
    /\ dirtyDirs' = dirtyDirs
    /\ dirtyRootDirEntry' = dirtyRootDirEntry
    /\ deferred' = deferred
    /\ dirtyBcache' = dirtyBcache

\* C27: a Write, Truncate or StartSync that returns an invalid-path,
\* wrong-block-type or not-a-writer error leaves dirtyFiles, unrefCache,
\* dirtyDirs, the shadow of the root entry, the deferred state and the
\* dirty block cache as they were, and with them GetState and IsDirty of
\* the file.
C27_FailedCallChangesNothing ==
    [][FailedCall =>
          /\ NoDataTouched
          /\ dirtyFiles' = dirtyFiles
          /\ GetState(Fbo)' = GetState(Fbo)
          /\ \A node \in FailNodes :
                hist'.failed.node = node => IsDirtyUnchanged(node)]_vars

\* What does hold: a call that fails on an invalid path, and a failing
\* StartSync, change nothing; a Write or Truncate that fails under the
\* block lock touches at most dirtyFiles.
C27_FailedCallTouchesNoData ==
    [][FailedCall =>
          /\ NoDataTouched
          /\ (hist'.failed.err = "invalidPath" \/ hist'.failed.op = "sync")
                => dirtyFiles' = dirtyFiles]_vars

\* CleanupSyncState reverts, in this step, the sync info of the file to a
\* saved copy that has a block put state.
RecoverableRevert ==
    /\ sync.phase = "started"
    /\ hist.outcome = "none"
    /\ hist'.outcome = "recoverable"
    /\ tailPointer(sync.file) \in DOMAIN unrefCache
    /\ ~sync.savedSi.bps.isNil

SiAtError == unrefCache[tailPointer(sync.file)]

RevertedSi == unrefCache'[tailPointer(sync.file)]

RevertedButBlockStates ==
    /\ RevertedSi.oldInfo = sync.savedSi.oldInfo
    /\ RevertedSi.op = sync.savedSi.op
    /\ ~RevertedSi.bps.isNil
    /\ RevertedSi.toCleanIfUnused =
          Append(SiAtError.toCleanIfUnused,
                 [md |-> hist.nSyncs, bps |-> SiAtError.bps.blockStates])
    /\ RevertedSi.unrefs =
          Without(SiAtError.unrefs, Range(sync.newIndirectFileBlockPtrs))

\* C28: after CleanupSyncState with a recoverable error on a sync info
\* whose saved copy has a block put state, the sync info is the saved copy
\* but for toCleanIfUnused, which keeps its entries of the time of the
\* error, the unrefs, which are the current ones without those of
\* newIndirectFileBlockPtrs, and the block states, which are those of the
\* saved copy whose pointer is not in blocksToRemove.
C28_RevertKeepsGoodBlockStates ==
    [][RecoverableRevert =>
          /\ RevertedButBlockStates
          /\ RevertedSi.bps.blockStates =
                Without(sync.savedSi.bps.blockStates, hist'.removed)]_vars

\* What does hold: all of it but the block states, of which none is left.
C28_RevertDropsBlockStates ==
    [][RecoverableRevert =>
          /\ RevertedButBlockStates
          /\ RevertedSi.bps.blockStates = <<>>]_vars

\* doDeferredWritesLocked is between its steps.
Replaying == sync.phase = "replaying"

\* A closure runs in this step and returns nil.
ClosureRuns ==
    /\ Replaying
    /\ sync'.phase = "replaying"
    /\ Len(sync'.replay.done) = Len(sync.replay.done) + 1

RECURSIVE SumBytes(_)
SumBytes(calls) ==
    IF calls = <<>> THEN 0 ELSE Head(calls).bytes + SumBytes(Tail(calls))

CallIds(calls) == [i \in DOMAIN calls |-> calls[i].id]

NotYetSyncing(dfs, ptr) ==
    IF ptr \in DOMAIN dfs THEN dfs[ptr].notYetSyncingBytes ELSE 0

\* Before the first closure runs no pointer of dirtyDeletes is in the
\* dirty cache, and no pointer is deleted once a closure ran.
DeletesBeforeClosures ==
    /\ Replaying' /\ sync'.replay.done # <<>> => sync'.replay.deletes = <<>>
    /\ ClosureRuns /\ sync.replay.done = <<>> =>
          \A ptr \in Range(sync.replay.ds.dirtyDeletes) : ~IsDirtyBlock(Fbo, ptr)

\* The closures that ran and those still to run are the queue.
ClosuresInQueueOrder ==
    Replaying' =>
       sync'.replay.done \o CallIds(sync'.replay.writes)
          = CallIds(sync'.replay.ds.writes)

\* A closure lowers notYetSyncingBytes of the dirty file of the old path by
\* the bytes it recorded and works on the new path: a Write is the last
\* write of the op of the new pointer.
ClosureOnNewPath ==
    ClosureRuns =>
       LET call == Head(sync.replay.writes)
           old == tailPointer(sync.file)
           new == tailPointer(sync.replay.newPath)
       IN /\ old # new
          /\ NotYetSyncing(dirtyFiles', old)
                = NotYetSyncing(dirtyFiles, old) - call.bytes
          /\ call.kind = "write" =>
                /\ new \in DOMAIN unrefCache'
                /\ unrefCache'[new].op.writes # <<>>
                /\ unrefCache'[new].op.writes[Len(unrefCache'[new].op.writes)].id
                      = call.id

WaitBytesIsSum ==
    \A ref \in DOMAIN deferred :
       SumBytes(deferred[ref].writes) = deferred[ref].waitBytes

\* C29: on the replay of the deferred writes every pointer of dirtyDeletes
\* is deleted from the dirty cache before a closure runs, the closures run
\* in the order of the queue on the new path, each lowers
\* notYetSyncingBytes of the old dirty file by the bytes recorded for it,
\* and these bytes sum up to waitBytes of the deferred state.
C29_ReplayOrder ==
    /\ []WaitBytesIsSum
    /\ [][DeletesBeforeClosures /\ ClosuresInQueueOrder /\ ClosureOnNewPath]_vars

\* Two closures were queued, with bytes to wait for, and both ran after
\* the deletes.
C29_Witness ==
    /\ Replaying
    /\ Len(sync.replay.done) = 2
    /\ sync.replay.ds.dirtyDeletes # <<>>
    /\ sync.replay.ds.waitBytes > 0

\* A closure returns an error in this step, and FinishSyncLocked with it.
ReplayFailsNow == Replaying /\ sync'.phase = "failed"

\* CleanupSyncState runs in this step with the error of FinishSyncLocked.
FailedCleanupNow == sync.phase = "failed" /\ sync'.phase = "idle"

ListenerHeld(ptr) ==
    /\ ptr \in DOMAIN dirtyFiles
    /\ "held" \in dirtyFiles[ptr].errListeners

StillQueued(call) ==
    \E ref \in DOMAIN deferred' : call \in Range(deferred'[ref].writes)

ReplayErrorReachesListener ==
    (FailedCleanupNow /\ ListenerHeld(tailPointer(sync.file)))
       => errListener' = Append(errListener, "other")

\* C30: the error of a replayed Write or Truncate goes to the error
\* listener of the file, the call that queued the closure has returned
\* before, and the closures queued behind the failing one are not lost:
\* they are still queued when FinishSyncLocked returns.
C30_ReplayErrorSurfaced ==
    [][/\ ReplayErrorReachesListener
       /\ ReplayFailsNow =>
             \A i \in 2..Len(sync.replay.writes) :
                StillQueued(sync.replay.writes[i])]_vars

\* What does hold: the listener gets the error, and nothing stays queued.
C30_ReplayErrorDropsClosures ==
    [][/\ ReplayErrorReachesListener
       /\ ReplayFailsNow => tailPointer(sync.file) \notin DOMAIN deferred']_vars

\* UpdatePointers applies an update in this step.
UpdateStepNow ==
    /\ sync.phase = "updating"
    /\ sync'.phase = "updating"
    /\ Len(sync'.update.updates) < Len(sync.update.updates)

\* The nodes whose pointer has another block id after the step.
NewBlockID ==
    {n \in DOMAIN nodeCache :
        BlockID(nodeCache'[n].ptr) # BlockID(nodeCache[n].ptr)}

ReturnsUpdatedNodes ==
    UpdateStepNow =>
       \/ NewBlockID = {} /\ sync'.update.affected = sync.update.affected
       \/ \E n \in NewBlockID :
             /\ NewBlockID = {n}
             /\ sync'.update.affected = Append(sync.update.affected, n)

\* A lock holder saw the node cache and the caches as they are before the
\* first update or after afterUpdateFn: the entry of the file names the
\* pointer of its node, and a file with queued writes is dirty.
SeenWhole ==
    /\ hist.seen.looked =>
          /\ hist.seen.node = "f"
          /\ hist.seen.entryPtr = hist.seen.nodePtr
    /\ (hist.seen.asked /\ hist.seen.queued) => hist.seen.dirty

\* C21: UpdatePointers applies the updates of the op and runs
\* afterUpdateFn in one hold of the block lock, so that no other holder of
\* the lock sees some of the updates applied, or all of them before
\* afterUpdateFn ran; it returns the nodes whose pointer got another block
\* id.
C21_UpdatePointersAtomic ==
    /\ []SeenWhole
    /\ [][ReturnsUpdatedNodes]_vars

\* A sync of a known top block returned the node of the directory alone,
\* and the file was looked up and asked for afterwards.
C21_Witness ==
    /\ hist.returned = <<"root">>
    /\ hist.seen.looked
    /\ hist.seen.nodePtr >= RefBase
    /\ hist.seen.asked


\* ---------------------------------------- fast-forward and the revision
\* The entry of the revision for the path of a node.
MdEntryOf(s, md, nc, n) == MdEntryAt(s, md, Tail(PathNames(PathFromNode(nc, n))))

FFReturns == hist'.ff.n = hist.ff.n + 1 /\ ~hist'.ff.err

LinkedMatchMd(s, md) ==
    \A n \in DOMAIN s.nodeCache :
        ~s.nodeCache[n].unlinked =>
            BlockID(tailPointer(PathFromNode(s.nodeCache, n)))
                = BlockID(MdEntryOf(s, md, s.nodeCache, n).ptr)

AbsentUnlinked(before, s, md) ==
    \A n \in DOMAIN before :
        MdEntryOf(s, md, before, n).ptr = 0 => s.nodeCache[n].unlinked

RootFirst(s, ff) ==
    /\ ff.changes # <<>>
    /\ ff.changes[1].node = "root"
    /\ s.nodeCache["root"].ptr = ff.md

FilesInvalidated(s, ff) ==
    \A n \in DOMAIN s.nodeCache :
        (~s.nodeCache[n].unlinked
         /\ MdEntryOf(s, ff.md, s.nodeCache, n).type = "File")
            => \E i \in DOMAIN ff.changes : ff.changes[i] = FileChange(n)

\* C22: when FastForwardAllNodes(md) returns without error, every node that
\* is still linked has at the tail of its path the block ID that md holds for
\* that path, every node cached before the call whose path md does not list
\* is unlinked, the root comes first with the root pointer of md, and every
\* linked file node has a NodeChange with FileUpdated = [{Off: 0, Len: 0}].
C22_FastForwardMatchesMd ==
    [][FFReturns => /\ LinkedMatchMd(Fbo', hist'.ff.md)
                    /\ AbsentUnlinked(nodeCache, Fbo', hist'.ff.md)
                    /\ RootFirst(Fbo', hist'.ff)
                    /\ FilesInvalidated(Fbo', hist'.ff)]_vars

\* The same holds as long as no revision has renamed one cached entry over
\* another.
C22_WithoutRenameOver ==
    [][(FFReturns /\ ~hist'.ff.moved)
           => /\ LinkedMatchMd(Fbo', hist'.ff.md)
              /\ AbsentUnlinked(nodeCache, Fbo', hist'.ff.md)
              /\ RootFirst(Fbo', hist'.ff)
              /\ FilesInvalidated(Fbo', hist'.ff)]_vars


\* ------------------------------------------- the search and stale caches
SearchOver == search.phase \in {"done", "returned"}

\* The node of the live cache has the pointer that the revision the engine
\* holds lists for its path.
NodeIsCurrent(n) ==
    /\ n \in DOMAIN nodeCache
    /\ BlockID(tailPointer(PathFromNode(nodeCache, n)))
          = BlockID(MdEntryOf(Fbo, hist.ff.md, nodeCache, n).ptr)

\* The nodes that the search hands back are nodes of the throwaway cache.
FoundInScratch ==
    \A p \in DOMAIN search.nodeMap :
        search.nodeMap[p] \in {""} \cup DOMAIN search.scratch

\* C23: a SearchForNodes call on the live node cache ends on that cache only
\* when its root is rootPtr; when the root is another pointer, at entry or
\* after an UpdatePointers that ran while the search had released the read
\* lock around a fetch, the search is retried on a throwaway cache, which
\* holds the nodes it hands back, and every node that the abandoned attempt
\* created in the live cache has the pointer of the current revision.
C23_StaleSearchRetried ==
    SearchOver =>
        /\ search.live => /\ ~search.retried
                          /\ search.err = "nil" =>
                                nodeCache["root"].ptr = search.rootPtr
        /\ search.retried => ~search.live /\ FoundInScratch
        /\ \A n \in search.created : NodeIsCurrent(n)

C23_Witness ==
    /\ search.phase = "returned"
    /\ search.retried /\ search.err = "nil"
    /\ search.created # {}
    /\ nodeCache["root"].ptr # search.rootPtr
    /\ \E p \in DOMAIN search.nodeMap : search.nodeMap[p] # ""


\* ------------------------------------------------ the deferral flag
DeferredWrites(d, ref) == IF ref \in DOMAIN d THEN d[ref].writes ELSE <<>>

DirtyDeletes(d, ref) == IF ref \in DOMAIN d THEN d[ref].dirtyDeletes ELSE <<>>

\* A call was put on the deferred list of ref in this step.
DeferralAdded(ref) ==
    Len(DeferredWrites(deferred', ref)) > Len(DeferredWrites(deferred, ref))

\* The pointers that the step added to the dirty deletes of ref.
AddedDeletes(ref) ==
    {DirtyDeletes(deferred', ref)[i] :
        i \in (Len(DirtyDeletes(deferred, ref)) + 1)
                 ..Len(DirtyDeletes(deferred', ref))}

\* The call that was deferred dirtied a block that was syncing.
TouchedSyncing(ref) ==
    /\ ref \in DOMAIN dirtyFiles
    /\ \E b \in AddedDeletes(ref) : isBlockSyncing(dirtyFiles[ref], b)

\* C31: doDeferWrite is false whenever the block lock is not write-held, and
\* a Write or Truncate is put on the deferred list only when it dirtied a
\* block that was syncing.
C31_DeferOnlyWhenSyncing ==
    /\ [](~BlockLockHeld => ~doDeferWrite)
    /\ [][\A ref \in DOMAIN deferred' :
             DeferralAdded(ref) => TouchedSyncing(ref)]_vars

C31_Witness ==
    /\ ~BlockLockHeld /\ ~doDeferWrite
    /\ sync.phase = "idle" /\ hist.nSyncs = 2
    /\ \E ref \in DOMAIN deferred : Len(deferred[ref].writes) >= 1


\* --------------------------------------- the lock around the block server
\* A call that needs the write lock, or the sync, changed the folder while
\* the fetch waited for the block server.
FetchInterleaved ==
    /\ fetch.phase = "remote" /\ fetch' = fetch
    /\ <<dirtyBcache, bcache, dirtyFiles, unrefCache, nodeCache>>'
          # <<dirtyBcache, bcache, dirtyFiles, unrefCache, nodeCache>>

ReadLockedRead(ft) == ft.rtype = "blockRead" /\ ft.lock = "read"

ReadLockedReadOrWrite(ft) ==
    ft.rtype \in {"blockRead", "blockWrite"} /\ ft.lock = "read"

\* C32 as stated: the lock is released around the call of the block server
\* only for a request of kind blockRead of a caller with the read lock,
\* and nothing interleaves with any other fetch.
C32_ReleasedOnlyForRead ==
    /\ [](fetch.released => ReadLockedRead(fetch))
    /\ [][FetchInterleaved => ReadLockedRead(fetch)]_vars

\* C32: the lock is released around the call of the block server exactly
\* for a request of kind blockRead or blockWrite of a caller with the read
\* lock (GetDir passes the kind of its caller on under the read lock); a
\* holder of the write lock, blockLookup and blockReadParallel never
\* release it, and nothing interleaves with their fetch.
C32_ReleasedOnlyUnderReadLock ==
    /\ [](fetch.phase = "remote" =>
             (fetch.released <=> ReadLockedReadOrWrite(fetch)))
    /\ [][FetchInterleaved => ReadLockedReadOrWrite(fetch)]_vars

C32_Witness ==
    /\ fetch.phase = "remote" /\ ~fetch.released
    /\ fetch.rtype = "blockLookup" /\ fetch.lock = "read"
    /\ hist.nWrites = 1 /\ sync.phase = "started"


\* ------------------------------------------------ the read notifications
\* The step is a call of the fetch that emitted the read-begin notification.
ReadBeginEmitted ==
    fetch.phase = "idle" /\ fetch' # fetch /\ fetch'.begins > 0

\* The step is the return of a fetch from the call of the block server.
FetchReturnsFromServer == fetch.phase = "remote" /\ fetch'.phase = "idle"

\* C35: a read-begin notification is emitted only for a valid pointer whose
\* block is in neither cache, with an acceptable data version and a path
\* that is valid for notification; a fetch that emitted it emits exactly
\* one read-end when it returns, whatever the block server answered, and
\* a fetch that did not emit it emits none.
C35_ReadBeginHasOneReadEnd ==
    /\ [][ReadBeginEmitted =>
             /\ fetch'.begins = 1 /\ fetch'.ends = 0 /\ fetch'.phase = "remote"
             /\ ptrIsValid(fetch'.ptr)
             /\ fetch'.ptr \notin DOMAIN dirtyBcache
             /\ fetch'.ptr \notin fetch.clean
             /\ fetch'.versionOk /\ fetch'.notifyValid]_vars
    /\ [][FetchReturnsFromServer =>
             /\ fetch'.begins = fetch.begins
             /\ fetch'.ends = fetch.begins]_vars
    /\ [](fetch.phase = "idle" => fetch.ends = fetch.begins)
    /\ [](fetch.phase = "remote" => fetch.ends = 0)
    /\ (fetch.phase = "remote" /\ fetch.begins = 1)
          ~> (fetch.phase = "idle" /\ fetch.ends = 1)

C35_Witness ==
    /\ fetch.phase = "idle" /\ fetch.result \in {"serverErr", "canceled"}
    /\ fetch.begins = 1 /\ fetch.ends = 1
    /\ 2 \in DOMAIN dirtyBcache


\* ------------------------------------------- the copy of a fetched block
\* The step is a Write or a Truncate that ran under the block lock.
WriteOrTruncateRan == hist'.nWrites > hist.nWrites

\* The block objects of the clean cache are what they were.
CleanBlocksKept ==
    \A ptr \in DOMAIN bcache : ptr \in DOMAIN bcache' /\ bcache'[ptr] = bcache[ptr]

\* The top block that the sync in flight readied is what it was.
SyncingBlockKept ==
    sync.phase = "started" => sync'.phase = "started" /\ sync'.fblock = sync.fblock

\* The blocks of the file that a fetch for writing copies: the clean ones
\* and the ones its DirtyFile wants copied.
CopiedForWrite ==
    {ptr \in DOMAIN bcache \cup DOMAIN dirtyBcache :
        \/ ~IsDirtyBlock(Fbo, ptr)
        \/ /\ tailPointer(FilePath) \in DOMAIN dirtyFiles
           /\ blockNeedsCopy(dirtyFiles[tailPointer(FilePath)], ptr)}

\* C33: getFileBlockLocked hands back a deep copy exactly for the kind
\* blockWrite when the block is not dirty or its DirtyFile reports
\* blockNeedsCopy, and the cached block itself otherwise and for every
\* read kind; no Write or Truncate changes a block object of the clean
\* cache or the block a sync has in flight.
C33_WriteMutatesOnlyItsCopy ==
    /\ [](\A ptr \in DOMAIN bcache \cup DOMAIN dirtyBcache,
            rtype \in {"blockRead", "blockWrite", "blockReadParallel"} :
            getFileBlockCopies(Fbo, ptr, FilePath, rtype)
               <=> (rtype = "blockWrite" /\ ptr \in CopiedForWrite))
    /\ [][WriteOrTruncateRan => CleanBlocksKept /\ SyncingBlockKept]_vars

C33_Witness ==
    /\ sync.phase = "started" /\ sync.fblockCached = FALSE
    /\ hist.during # {}
    /\ tailPointer(sync.file) \in DOMAIN dirtyBcache
    /\ dirtyBcache[tailPointer(sync.file)] # sync.fblock


\* ------------------------------------------------ the local block cache
\* The step is a mergeDirtyEntryWithLBC.
MergedWithLBC == sync.phase = "started" /\ sync' = sync /\ hist' = hist

\* The block of the directory of the file as the dirData on the local
\* cache sees it.
LBCView(l, s) ==
    LET ptr == tailPointer(parentPath(s.sync.file))
    IN IF ptr \in DOMAIN l THEN l[ptr].block ELSE getBlock(s, ptr)

\* C34: a dirData on a local block cache puts no block into the dirty
\* block cache and changes no block object of it: the block it fetches for
\* writing from outside the local cache is copied before it is put there,
\* later fetches of the pointer get the copy, and the changed block is
\* stored in the local cache only.
C34_LBCLeavesLiveCacheAlone ==
    /\ [][MergedWithLBC =>
             /\ dirtyBcache' = dirtyBcache /\ bcache' = bcache
             /\ \E de \in MergedEntries(Fbo) :
                   LBCView(lbc', Fbo) =
                      [LBCView(lbc, Fbo) EXCEPT
                         !.children = Put(@, tailName(sync.file), de)]]_vars
    /\ [](\A ptr \in DOMAIN lbc : ~lbc[ptr].shared)

C34_Witness ==
    /\ sync.phase = "started"
    /\ LET ptr == tailPointer(parentPath(sync.file))
       IN /\ ptr \in DOMAIN lbc /\ ptr \in DOMAIN dirtyBcache
          /\ lbc[ptr].block # dirtyBcache[ptr]
          /\ lbc[ptr].block.children["f"].encSize = sync.dirtyDe.encSize + 1


\* ------------------------------------- the blocks of failed sync attempts
\* The rules under which the last call asked for the deletion of ptr, one
\* for each time it asked.
DeletionsOf(ptr) ==
    {i \in 1..Len(cleanup.deletions) :
        \E j \in 1..Len(cleanup.deletions[i].ptrs) :
           cleanup.deletions[i].ptrs[j] = ptr}

EntriesWith(ptr) ==
    {i \in 1..Len(cleanup.toClean) :
        \E j \in 1..Len(cleanup.toClean[i].blockStates) :
           cleanup.toClean[i].blockStates[j] = ptr}

InOtherStatusEntry(ptr) ==
    \E i \in EntriesWith(ptr) : cleanup.toClean[i].merged # cleanup.merged

CleanedOnceUnder(ptr, bdType) ==
    /\ Cardinality(DeletionsOf(ptr)) = 1
    /\ \A i \in DeletionsOf(ptr) :
          /\ cleanup.deletions[i].bdType = bdType
          /\ Cardinality({j \in 1..Len(cleanup.deletions[i].ptrs) :
                             cleanup.deletions[i].ptrs[j] = ptr}) = 1

CleanedAsClaimed(ptr) ==
    IF InOtherStatusEntry(ptr) THEN CleanedOnceUnder(ptr, "blockDeleteOnMDFail")
    ELSE IF ptr \in cleanup.refs THEN DeletionsOf(ptr) = {}
    ELSE CleanedOnceUnder(ptr, "blockDeleteAlways")

\* C36: a block of several toCleanIfUnused entries is cleaned once, under
\* the rule of the entry whose merge status differs from the committed
\* metadata wherever that entry stands in the list; a block of entries of
\* the same status only is deleted at once when the committed metadata
\* does not refer to it and kept when it does.
C36_OtherStatusEntryDecides ==
    \A ptr \in CleanPtrs : EntriesWith(ptr) # {} => CleanedAsClaimed(ptr)

\* The entry whose merge status differs stands before every entry of the
\* status of the committed metadata that shares a block with it.
OtherStatusFirst ==
    \A ptr \in CleanPtrs :
       InOtherStatusEntry(ptr) =>
          \A i \in EntriesWith(ptr) :
             cleanup.toClean[i].merged = cleanup.merged =>
                \E k \in EntriesWith(ptr) :
                   k < i /\ cleanup.toClean[k].merged # cleanup.merged

\* With the entries in that order the blocks are cleaned as C36 says.
C36_HoldsWhenOtherStatusFirst ==
    OtherStatusFirst => C36_OtherStatusEntryDecides

C36_Shared ==
    /\ cleanup.called /\ OtherStatusFirst
    /\ Cardinality(EntriesWith(11)) = 2 /\ InOtherStatusEntry(11)
    /\ 11 \in cleanup.refs
    /\ cleanup.toClean[2].merged = cleanup.merged


\* ------------------------------------------- StartSync without SyncInfo
\* StartSync returned in this step for a file that has no SyncInfo.
StartSyncWithoutSyncInfo ==
    /\ FailedCall /\ hist'.failed.op = "sync"
    /\ LET file == PathFromNode(nodeCache, hist'.failed.node)
       IN /\ getFileLocked(Fbo, file) = "nil"
          /\ tailPointer(file) \notin DOMAIN unrefCache

\* C37: StartSync of a file without SyncInfo in unrefCache returns the
\* no-sync-op error, adds no op to the metadata, marks no block syncing or
\* orphaned and leaves unrefCache, dirtyFiles, deferred and the dirty
\* block cache as they were.
C37_NoSyncOpChangesNothing ==
    [][StartSyncWithoutSyncInfo =>
          /\ hist'.failed.err = "noSyncOp"
          /\ sync' = sync
          /\ unrefCache' = unrefCache /\ dirtyFiles' = dirtyFiles
          /\ deferred' = deferred /\ dirtyBcache' = dirtyBcache]_vars

C37_Witness ==
    /\ hist.failed.err = "noSyncOp" /\ hist.failed.node = "f"
    /\ tailPointer(FilePath) \notin DOMAIN unrefCache
    /\ sync = NoSync


\* ----------------------------------------- the file data step that fails
\* The file data step of a Write or Truncate failed in this step.
FileDataFailed == hist'.dataErr.n # hist.dataErr.n

UnrefsOf(cache, ref) == IF ref \in DOMAIN cache THEN cache[ref].unrefs ELSE <<>>

\* The unrefs the failed step returned are at the end of the unrefs of the
\* SyncInfo of the file.
UnrefsRecorded ==
    LET ref == tailPointer(FilePath)
    IN /\ ref \in DOMAIN unrefCache'
       /\ unrefCache'[ref].unrefs = UnrefsOf(unrefCache, ref) \o hist'.dataErr.unrefs

\* The bytes the failed step returned were added to notYetSyncingBytes.
BytesRecorded ==
    LET tail == tailPointer(FilePath)
    IN NotYetSyncing(dirtyFiles', tail)
          = NotYetSyncing(dirtyFiles, tail) + hist'.dataErr.bytes

\* C38: when the file data step of a Write or of a shrinking Truncate
\* returns an error, the unrefs it returned are in the SyncInfo of the
\* file and the newly dirtied bytes it returned are in notYetSyncingBytes
\* of the DirtyFile, on the write path and on the shrink path alike.
C38_FailedStepIsAccounted ==
    [][FileDataFailed => UnrefsRecorded /\ BytesRecorded]_vars

\* What holds: the unrefs are recorded on both paths, the bytes on the
\* write path.
C38_UnrefsAlwaysBytesOnWrite ==
    [][FileDataFailed =>
          /\ UnrefsRecorded
          /\ hist'.dataErr.path = "write" => BytesRecorded]_vars

C38_ShrinkFailed ==
    /\ hist.dataErr.path = "shrink" /\ hist.dataErr.bytes = 2
    /\ hist.dataErr.unrefs = <<21>>
    /\ unrefCache[tailPointer(FilePath)].unrefs # <<>>


\* --------------------------------------------- the wait holds no lock
\* CleanupSyncState of a failed sync takes the block lock for writing.
CleanupCanLock == sync.phase = "started" => ENABLED SyncFails

Blocked == pc \in {"requested", "waiting"}

FatalErrorQueued ==
    errListener # <<>> /\ Head(errListener) \notin ContextErrors

\* C39: a Write or Truncate that waits for its admission or its listener
\* holds no block lock, so the sync can take it; the wait can end with the
\* context of the call at any time, and under fair scheduling it ends
\* once the call was admitted or a non-context error was delivered.
C39_BlockedWriteHoldsNoLock ==
    /\ [](Blocked => ~BlockLockHeld /\ CleanupCanLock)
    /\ [](pc = "waiting" => ENABLED WaitCtxDone)
    /\ (pc = "waiting" /\ client.c) ~> (pc # "waiting")
    /\ (pc = "waiting" /\ FatalErrorQueued) ~> (pc # "waiting")

C39_Witness ==
    /\ pc = "waiting" /\ ~client.c /\ errListener = <<>>
    /\ sync.phase = "started"
    /\ client.seq = 2

====
